---- MODULE Spec2Model ----
(***************************************************************************)
(* Model of the orchestration code of the imagery notebooks:               *)
(*   analysis-ready-data/ard_2_use_case_1.ipynb                            *)
(*     get_acquired_date, get_date_item_ids, get_ids_by_date, build_order, *)
(*     get_tools, get_orders_requests, poll_for_success (several orders)   *)
(*   orders/ordering_and_delivery.ipynb                                    *)
(*     poll_for_success (one order), download_results                      *)
(* The remote service and the file system are the environment: what a      *)
(* status fetch answers is chosen freely at every fetch.                   *)
(*                                                                         *)
(* Text is a sequence of one-character strings, so that str.split and      *)
(* list += str act on characters as they do in Python.                     *)
(***************************************************************************)
EXTENDS Integers, Sequences, FiniteSets, TLC

VARIABLES
    \* ard_2_use_case_1: search result, grouping, order requests
    items, ids_by_date, order_requests, gpc,
    \* ordering_and_delivery: poll_for_success(order_url, auth, num_loops)
    p_num_loops, p_count, p_pc, p_log, p_error, p_value,
    \* ard_2_use_case_1: poll_for_success(order_ids, client, num_loops)
    m_order_ids, m_num_loops, m_count, m_polling, m_completed, m_snapshot,
    m_idx, m_pc, m_log, m_error, m_value,
    \* ordering_and_delivery: download_results; d_fs0: the files at the call
    d_results, d_overwrite, d_fs, d_fs0, d_idx, d_pc, d_http, d_error,
    \* ard_2_use_case_1: unzip(filename, overwrite); u_fs0: the files at the start
    u_fs, u_fs0, u_calls,
    \* ard_2_use_case_1: download_orders and poll_for_download
    do_caller, do_order_ids, do_num_loops, do_endswith, do_dest,
    do_started, do_idx, do_count, do_files, do_match, do_pc, do_log,
    do_error,
    \* visualize_imagery_over_time: get_item_ids
    gi_limit, gi_pages, gi_loop, gi_cur, gi_ids, gi_pc, gi_value, gi_error,
    gi_fetched,
    \* datasets-identify: prepare_cdl_image; c_files0: the files at the call
    c_files, c_files0, c_compress, c_overwrite, c_commands, c_pc, c_error,
    \* visualize_imagery_over_time: animate
    a_urls, a_delay, a_loops, a_disp_id, a_loop, a_frame, a_pc, a_log,
    \* datasets-identify: load_ground_truth
    l_survey, l_idx, l_features, l_projected, l_pc, l_value,
    \* datasets-identify: handle_draw; h_map, h_created, h_deleted: the boxes of the draw control
    h_features, h_map, h_created, h_deleted, h_aois, h_label, h_error,
    h_events

groupVars == <<items, ids_by_date, order_requests, gpc>>
pollVars == <<p_num_loops, p_count, p_pc, p_log, p_error, p_value>>
multiVars ==
    <<m_order_ids, m_num_loops, m_count, m_polling, m_completed,
      m_snapshot, m_idx, m_pc, m_log, m_error,
      m_value>>
dlVars ==
    <<d_results, d_overwrite, d_fs, d_fs0, d_idx,
      d_pc, d_http, d_error>>
unzipVars == <<u_fs, u_fs0, u_calls>>
dordVars ==
    <<do_caller, do_order_ids, do_num_loops, do_endswith, do_dest,
      do_started, do_idx, do_count, do_files, do_match,
      do_pc, do_log, do_error>>
itemIdsVars ==
    <<gi_limit, gi_pages, gi_loop, gi_cur, gi_ids,
      gi_pc, gi_value, gi_error, gi_fetched>>
cdlVars ==
    <<c_files, c_files0, c_compress, c_overwrite, c_commands,
      c_pc, c_error>>
animVars ==
    <<a_urls, a_delay, a_loops, a_disp_id, a_loop,
      a_frame, a_pc, a_log>>
truthVars == <<l_survey, l_idx, l_features, l_projected, l_pc, l_value>>
drawVars ==
    <<h_features, h_map, h_created, h_deleted, h_aois,
      h_label, h_error, h_events>>
vars ==
    <<groupVars, pollVars, multiVars, dlVars,
      unzipVars, dordVars, itemIdsVars, cdlVars,
      animVars, truthVars, drawVars>>

(***************************************************************************)
(* Bounds of the model.                                                    *)
(***************************************************************************)
MaxItems   == 3     \* items in a search result
MaxLoops   == 3     \* num_loops of the one-order poll
MaxRounds  == 2     \* num_loops of the several-orders poll
MaxOrders  == 2     \* orders polled together
MaxResults == 3     \* entries of an order's results list
MaxUnzipCalls == 2  \* calls of unzip in a run
MaxPages == 3       \* pages of a search
MaxPageLen == 2     \* features on a page
MaxLimit == 3       \* the limit passed to get_item_ids
MaxDim == 3         \* rows and columns of the destination image
MaxUrls == 2        \* urls passed to animate
MaxAnimLoops == 2   \* loops passed to animate
MaxFeatures == 3    \* features of the survey file
MaxDrawEvents == 3  \* draw events delivered to handle_draw
MaxDlLoops == 2     \* checks poll_for_download makes (stands for its default 50)

(***************************************************************************)
(* General helpers.                                                        *)
(***************************************************************************)
Range(s) == {s[k] : k \in DOMAIN s}

\* the sequences without repetition that enumerate the set S: the orders in
\* which Python may iterate over a set
SetOrders(S) ==
    {s \in [1..Cardinality(S) -> S] :
        \A a, b \in 1..Cardinality(S) : a # b => s[a] # s[b]}

SeqsUpTo(S, n) == UNION {[1..k -> S] : k \in 0..n}

(***************************************************************************)
(* ard_2_use_case_1.ipynb, steps 2 to 4: items, dates, order requests.     *)
(***************************************************************************)
\* the first piece of str.split(sep): the text before the first sep, the
\* whole text when sep does not occur
RECURSIVE split_first(_, _)
split_first(text, sep) ==
    IF text = <<>> THEN <<>>
    ELSE IF Head(text) = sep THEN <<>>
    ELSE <<Head(text)>> \o split_first(Tail(text), sep)

get_acquired_date(item) == split_first(item.properties.acquired, "T")

\* faulty variant: the date filter is dropped
get_date_item_ids_all(date, all_items) ==
    [k \in 1..Len(all_items) |-> all_items[k].id]

\* faulty variant: the group is built back to front
get_date_item_ids_reversed(date, all_items) ==
    LET sel == SelectSeq(all_items, LAMBDA i : get_acquired_date(i) = date)
    IN  [k \in 1..Len(sel) |-> sel[Len(sel) + 1 - k].id]

get_date_item_ids(date, all_items) ==
    LET sel == SelectSeq(all_items, LAMBDA i : get_acquired_date(i) = date)
    IN  [k \in 1..Len(sel) |-> sel[k].id]

\* the dates a search over the test month can return
DateTexts == {<<"0", "2">>, <<"0", "8">>, <<"2", "6">>}
TimeTexts == {<<"1", "5">>, <<"1", "6">>}
Timestamps == {d \o <<"T">> \o t \o <<"Z">> : d \in DateTexts, t \in TimeTexts}
ItemIds == {"a", "b", "c", "d"}

unique_acquired_dates(its) == {get_acquired_date(its[k]) : k \in 1..Len(its)}

\* a dict is the sequence of its (key, value) entries in insertion order;
\* set_order is the order in which the set of dates is iterated
\* faulty variant: a key for every date of the month, acquired or not
get_ids_by_date_every_date(its, set_order) ==
    LET every == CHOOSE s \in SetOrders(DateTexts) : TRUE
    IN  [k \in 1..Len(every) |->
            [key |-> every[k], value |-> get_date_item_ids(every[k], its)]]

get_ids_by_date(its, set_order) ==
    [k \in 1..Len(set_order) |->
        [key   |-> set_order[k],
         value |-> get_date_item_ids(set_order[k], its)]]

test_aoi_geom == "iowa_crops_aoi"

get_tools(aoi_geom) ==
    << [clip |-> [aoi |-> aoi_geom]],
       [bandmath |-> [pixel_type |-> "32R", b1 |-> "(b4 - b3) / (b4+b3)"]],
       [composite |-> <<>>] >>

build_order(ids, name, aoi_geom) ==
    [name     |-> name,
     products |-> << [item_ids       |-> ids,
                      item_type      |-> "PSScene",
                      product_bundle |-> "analytic_sr_udm2"] >>,
     tools    |-> get_tools(aoi_geom),
     delivery |-> [single_archive   |-> TRUE,
                   archive_filename |-> "{{name}}_{{order_id}}.zip",
                   archive_type     |-> "zip"],
     notifications |-> [email |-> FALSE]]

\* faulty variant: one order for the whole time stack, what the notebook's
\* introduction
\* says must be avoided
get_orders_requests_one_order(by_date, aoi_geom) ==
    IF by_date = <<>> THEN <<>>
    ELSE LET RECURSIVE allids(_)
             allids(k) == IF k > Len(by_date) THEN <<>>
                          ELSE by_date[k].value \o allids(k + 1)
         IN  << build_order(allids(1), by_date[1].key, aoi_geom) >>

get_orders_requests(by_date, aoi_geom) ==
    [k \in 1..Len(by_date) |->
        build_order(by_date[k].value, by_date[k].key, aoi_geom)]

\* a search result: items with pairwise distinct ids (an item is keyed by
\* its id), each with an acquisition timestamp
SearchResults ==
    {s \in SeqsUpTo([id : ItemIds, properties : [acquired : Timestamps]],
                    MaxItems) :
        \A a, b \in 1..Len(s) : a # b => s[a].id # s[b].id}

\* ids_by_date = get_ids_by_date(items)
GroupIds ==
    /\ gpc = "searched"
    /\ \E set_order \in SetOrders(unique_acquired_dates(items)) :
           ids_by_date' = get_ids_by_date(items, set_order)
    /\ gpc' = "grouped"
    /\ UNCHANGED <<items, order_requests>>

\* order_requests = get_orders_requests(ids_by_date, test_aoi_geom)
BuildOrderRequests ==
    /\ gpc = "grouped"
    /\ order_requests' = get_orders_requests(ids_by_date, test_aoi_geom)
    /\ gpc' = "requested"
    /\ UNCHANGED <<items, ids_by_date>>

(***************************************************************************)
(* Specification of the grouping flow (ard_2_use_case_1, steps 2 to 4).    *)
(* The other notebooks' code is not started: its variables stay put.       *)
(***************************************************************************)
GroupInit ==
    /\ items \in SearchResults
    /\ ids_by_date = <<>>
    /\ order_requests = <<>>
    /\ gpc = "searched"
    /\ p_num_loops = 0 /\ p_count = 0 /\ p_pc = "off" /\ p_log = <<>>
    /\ p_error = "none" /\ p_value = "unset"
    /\ m_order_ids = <<>> /\ m_num_loops = 0 /\ m_count = 0
    /\ m_polling = <<>> /\ m_completed = <<>> /\ m_snapshot = <<>>
    /\ m_idx = 0 /\ m_pc = "off" /\ m_log = <<>> /\ m_error = "none"
    /\ m_value = "unset"
    /\ d_results = <<>> /\ d_overwrite = FALSE /\ d_fs = <<>>
    /\ d_fs0 = <<>> /\ d_idx = 0 /\ d_pc = "off" /\ d_http = <<>>
    /\ d_error = "none"
    /\ u_fs = <<>> /\ u_fs0 = <<>> /\ u_calls = <<>>
    /\ do_caller = "none" /\ do_order_ids = <<>> /\ do_num_loops = 0
    /\ do_endswith = <<>> /\ do_dest = {} /\ do_started = {} /\ do_idx = 0
    /\ do_count = 0 /\ do_files = <<>> /\ do_match = <<>> /\ do_pc = "off"
    /\ do_log = <<>> /\ do_error = "none"
    /\ gi_limit = 0 /\ gi_pages = <<>> /\ gi_loop = 0 /\ gi_cur = 0
    /\ gi_ids = <<>> /\ gi_pc = "off" /\ gi_value = <<>>
    /\ gi_error = "none" /\ gi_fetched = <<>>
    /\ c_files = <<>> /\ c_files0 = <<>> /\ c_compress = FALSE
    /\ c_overwrite = FALSE /\ c_commands = <<>> /\ c_pc = "off"
    /\ c_error = "none"
    /\ a_urls = <<>> /\ a_delay = 0 /\ a_loops = 0 /\ a_disp_id = "none"
    /\ a_loop = 0 /\ a_frame = 0 /\ a_pc = "off" /\ a_log = <<>>
    /\ l_survey = <<>> /\ l_idx = 0 /\ l_features = <<>>
    /\ l_projected = <<>> /\ l_pc = "off" /\ l_value = <<>>
    /\ h_features = <<>> /\ h_map = <<>> /\ h_created = <<>>
    /\ h_deleted = {} /\ h_aois = <<>> /\ h_label = <<>>
    /\ h_error = "none" /\ h_events = 0

GroupNext ==
    \/ GroupIds /\ UNCHANGED <<pollVars, multiVars, dlVars, unzipVars,
            dordVars, itemIdsVars, cdlVars, animVars, truthVars, drawVars>>
    \/ BuildOrderRequests /\ UNCHANGED <<pollVars, multiVars, dlVars,
            unzipVars, dordVars, itemIdsVars, cdlVars, animVars, truthVars,
            drawVars>>

SpecGroup == GroupInit /\ [][GroupNext]_vars

(***************************************************************************)
(* Properties of the grouping flow.                                        *)
(***************************************************************************)
\* the text of a timestamp before its 'T'
DatePart(ts) ==
    LET k == CHOOSE n \in 1..Len(ts) :
                 ts[n] = "T" /\ \A m \in 1..(n - 1) : ts[m] # "T"
    IN  SubSeq(ts, 1, k - 1)

RECURSIVE TotalIds(_)
TotalIds(by_date) ==
    IF by_date = <<>> THEN 0
    ELSE Len(Head(by_date).value) + TotalIds(Tail(by_date))

Grouped == gpc \in {"grouped", "requested"}

\* C1: get_ids_by_date partitions the items: every item's id is in the list
\* under the key equal to the date part of its 'acquired' timestamp and in
\* no other key's list, and the lists together hold as many ids as there
\* are items.
C1_Partition ==
    Grouped =>
        /\ \A i \in 1..Len(items) :
               \E e \in 1..Len(ids_by_date) :
                   /\ ids_by_date[e].key = DatePart(items[i].properties.acquired)
                   /\ items[i].id \in Range(ids_by_date[e].value)
                   /\ \A f \in 1..Len(ids_by_date) :
                          f # e => items[i].id \notin Range(ids_by_date[f].value)
        /\ TotalIds(ids_by_date) = Len(items)

C1_Witness ==
    /\ Grouped
    /\ Len(items) = 3
    /\ Len(ids_by_date) = 2

\* the position of the item with the given id in the search result
PosOf(id) == CHOOSE i \in 1..Len(items) : items[i].id = id

\* C2: inside each date group the ids are in the relative order of their
\* items in the input sequence.
C2_EncounterOrder ==
    Grouped =>
        \A e \in 1..Len(ids_by_date) :
            \A a, b \in 1..Len(ids_by_date[e].value) :
                a < b => PosOf(ids_by_date[e].value[a]) < PosOf(ids_by_date[e].value[b])

C2_Witness ==
    /\ Grouped
    /\ \E e \in 1..Len(ids_by_date) : Len(ids_by_date[e].value) >= 2

\* C3: the empty sequence of items gives the empty mapping, and no key of
\* any result maps to an empty list.
C3_EmptyAndNoEmptyGroup ==
    Grouped =>
        /\ (items = <<>> => ids_by_date = <<>>)
        /\ \A e \in 1..Len(ids_by_date) : Len(ids_by_date[e].value) > 0

C3_Witness ==
    /\ Grouped
    /\ items = <<>>
    /\ ids_by_date = <<>>

\* C4: one order request per date key; its name is the date and its only
\* product's item_ids is that date's id list; every id of a request was
\* acquired on the date the request is named after, and no id is in two
\* requests.
C4_OneOrderPerDate ==
    gpc = "requested" =>
        /\ Len(order_requests) = Len(ids_by_date)
        /\ {order_requests[k].name : k \in 1..Len(order_requests)}
               = {DatePart(items[i].properties.acquired) : i \in 1..Len(items)}
        /\ \A k \in 1..Len(order_requests) :
               /\ order_requests[k].name = ids_by_date[k].key
               /\ Len(order_requests[k].products) = 1
               /\ order_requests[k].products[1].item_ids = ids_by_date[k].value
               /\ \A id \in Range(order_requests[k].products[1].item_ids) :
                      DatePart(items[PosOf(id)].properties.acquired)
                          = order_requests[k].name
               /\ \A j \in 1..Len(order_requests) :
                      j # k =>
                          /\ order_requests[j].name # order_requests[k].name
                          /\ Range(order_requests[j].products[1].item_ids)
                                 \cap Range(order_requests[k].products[1].item_ids) = {}

C4_Witness ==
    /\ gpc = "requested"
    /\ Len(order_requests) = 2
    /\ \E k \in 1..2 : Len(order_requests[k].products[1].item_ids) = 2

(***************************************************************************)
(* The order states the service reports.  'cancelled' is reported after    *)
(* the cancel request of ordering_and_delivery; neither poll names it.     *)
(***************************************************************************)
ServerStates ==
    {"queued", "running", "success", "partial", "failed", "cancelled"}

\* how a function ends: off the end of its body (Python returns None), or
\* by an exception that leaves it
Returned == [pc |-> "returned", error |-> "none", value |-> "None"]
Raised(e) == [pc |-> "raised", error |-> e, value |-> "unset"]

(***************************************************************************)
(* ordering_and_delivery.ipynb: poll_for_success(order_url, auth,          *)
(* num_loops).  p_log records the calls that leave the function:           *)
(* requests.get (with what it answered) and time.sleep.                    *)
(***************************************************************************)
\* faulty variant: 'failed' is not an end state
end_states_no_failed == {"success", "partial"}

end_states == {"success", "failed", "partial"}

\* what requests.get(order_url) can answer: a JSON body with a 'state', a
\* JSON body without one, a body that is not JSON
PollAnswers ==
    [kind : {"state"}, state : ServerStates]
        \cup {[kind |-> "no_state", state |-> "-"],
              [kind |-> "not_json", state |-> "-"]}

poll_sleep_secs == 10

\* the end of poll_for_success when the while condition fails
\* faulty variant: a timeout error when the budget is used up
poll_exhausted_timeout == Raised("TimeoutError")

poll_exhausted == Returned

\* the end of poll_for_success on an end state: break, then off the end
poll_break(state) == Returned

\* after a fetch that did not end the poll: time.sleep(10), then the loop
\* faulty variant: the loop retries without sleeping
poll_after_nonterminal_no_sleep == "while"

poll_after_nonterminal == "sleep"

\* r.json() on a body that is not JSON raises JSONDecodeError and
\* response['state'] on a body without the field raises KeyError; the
\* function catches neither
\* faulty variant: a malformed answer is taken for a state to wait on
poll_on_malformed_retry(kind) ==
    [pc |-> "sleep", error |-> "none", value |-> "unset"]

poll_on_malformed(kind) ==
    IF kind = "not_json" THEN Raised("JSONDecodeError") ELSE Raised("KeyError")

\* one pass of the loop body up to its break or its sleep
PollFetch ==
    /\ p_pc = "while"
    /\ p_count < p_num_loops
    /\ p_count' = p_count + 1
    /\ \E answer \in PollAnswers :
          /\ p_log' = Append(p_log, [op |-> "get", answer |-> answer])
          /\ LET end ==
                   IF answer.kind \in {"not_json", "no_state"}
                        THEN poll_on_malformed(answer.kind)
                   ELSE IF answer.state \in end_states
                        THEN poll_break(answer.state)
                   ELSE [pc |-> poll_after_nonterminal, error |-> "none",
                         value |-> "unset"]
             IN  /\ p_pc' = end.pc
                 /\ p_error' = end.error
                 /\ p_value' = end.value
    /\ UNCHANGED p_num_loops

PollSleep ==
    /\ p_pc = "sleep"
    /\ p_log' = Append(p_log, [op |-> "sleep", secs |-> poll_sleep_secs])
    /\ p_pc' = "while"
    /\ UNCHANGED <<p_num_loops, p_count, p_error, p_value>>

PollExhausted ==
    /\ p_pc = "while"
    /\ ~(p_count < p_num_loops)
    /\ p_pc' = poll_exhausted.pc
    /\ p_error' = poll_exhausted.error
    /\ p_value' = poll_exhausted.value
    /\ UNCHANGED <<p_num_loops, p_count, p_log>>

(***************************************************************************)
(* ard_2_use_case_1.ipynb: poll_for_success(order_ids, client, num_loops). *)
(* m_log records client.get_individual_order(oid).get() (with what it      *)
(* answered) and time.sleep.  The local list 'states' is written and never *)
(* read; it is left out.                                                   *)
(***************************************************************************)
success_states == {"success", "partial"}

\* the ids create_orders returned, as texts
OrderIdPool ==
    << <<"e", "0">>, <<"0", "5">>, <<"b", "2">>, <<"7", "c">> >>

\* what client.get_individual_order(oid).get() can answer: order info with
\* a 'state', order info without one, or an exception of the client
MultiAnswers ==
    [kind : {"state"}, state : ServerStates]
        \cup {[kind |-> "no_state", state |-> "-"],
              [kind |-> "api_error", state |-> "-"]}

multi_sleep_secs == 30

\* list.remove(x): the list without the first x
\* faulty variant: the completed order stays in the polling list
list_remove_keep(list, x) == list

list_remove(list, x) ==
    LET k == CHOOSE n \in 1..Len(list) :
                 list[n] = x /\ \A m \in 1..(n - 1) : list[m] # x
    IN  SubSeq(list, 1, k - 1) \o SubSeq(list, k + 1, Len(list))

\* 'raise Exception(response)': the function has no name 'response' and the
\* notebook defines none, so evaluating the argument raises NameError
\* faulty variant: 'failed' is passed over
multi_on_failed_continue == [pc |-> "for", error |-> "none", value |-> "unset"]

multi_on_failed == Raised("NameError")

\* the end of poll_for_success when the while condition fails
\* faulty variant: a timeout error when the budget is used up
multi_exhausted_timeout == Raised("TimeoutError")

multi_exhausted == Returned

\* the end of a round: 'if not len(polling)' breaks, otherwise sleep
\* faulty variant: the round never breaks
multi_round_done_always_sleep(polling) == FALSE

multi_round_done(polling) == Len(polling) = 0

\* while(count < num_loops): count += 1; for oid in copy(polling)
MultiRound ==
    /\ m_pc = "while"
    /\ m_count < m_num_loops
    /\ m_count' = m_count + 1
    /\ m_snapshot' = m_polling
    /\ m_idx' = 1
    /\ m_pc' = "for"
    /\ UNCHANGED <<m_order_ids, m_num_loops, m_polling, m_completed, m_log,
                   m_error, m_value>>

\* the body of the for loop for one order id
MultiFetch ==
    /\ m_pc = "for"
    /\ m_idx <= Len(m_snapshot)
    /\ LET oid == m_snapshot[m_idx] IN
       \E answer \in MultiAnswers :
          /\ m_log' = Append(m_log, [op |-> "get", oid |-> oid, answer |-> answer])
          /\ LET end ==
                   IF answer.kind = "api_error" THEN Raised("APIException")
                   ELSE IF answer.kind = "no_state" THEN Raised("KeyError")
                   ELSE IF answer.state = "failed" THEN multi_on_failed
                   ELSE [pc |-> "for", error |-> "none", value |-> "unset"]
                 done == answer.kind = "state" /\ answer.state \in success_states
             IN  /\ m_pc' = end.pc
                 /\ m_error' = end.error
                 /\ m_value' = end.value
                 /\ m_polling' = IF done THEN list_remove(m_polling, oid)
                                 ELSE m_polling
                 /\ m_completed' = IF done THEN m_completed \o oid
                                   ELSE m_completed
    /\ m_idx' = m_idx + 1
    /\ UNCHANGED <<m_order_ids, m_num_loops, m_count, m_snapshot>>

\* after the for loop: break when nothing is left to poll, otherwise sleep
MultiRoundEnd ==
    /\ m_pc = "for"
    /\ m_idx > Len(m_snapshot)
    /\ IF multi_round_done(m_polling)
       THEN /\ m_pc' = Returned.pc
            /\ m_error' = Returned.error
            /\ m_value' = Returned.value
            /\ m_log' = m_log
       ELSE /\ m_log' = Append(m_log, [op |-> "sleep", secs |-> multi_sleep_secs])
            /\ m_pc' = "while"
            /\ UNCHANGED <<m_error, m_value>>
    /\ UNCHANGED <<m_order_ids, m_num_loops, m_count, m_polling, m_completed,
                   m_snapshot, m_idx>>

MultiExhausted ==
    /\ m_pc = "while"
    /\ ~(m_count < m_num_loops)
    /\ m_pc' = multi_exhausted.pc
    /\ m_error' = multi_exhausted.error
    /\ m_value' = multi_exhausted.value
    /\ UNCHANGED <<m_order_ids, m_num_loops, m_count, m_polling, m_completed,
                   m_snapshot, m_idx, m_log>>

(***************************************************************************)
(* Specification of the two polls: a run is one call of one of them, with  *)
(* any num_loops up to the bound and, for the several-orders poll, the     *)
(* ids of the orders created before.                                       *)
(***************************************************************************)
PollsInit ==
    /\ p_count = 0 /\ p_log = <<>> /\ p_error = "none" /\ p_value = "unset"
    /\ m_count = 0 /\ m_completed = <<>> /\ m_snapshot = <<>> /\ m_idx = 0
    /\ m_log = <<>> /\ m_error = "none" /\ m_value = "unset"
    /\ \/ /\ p_pc = "while"
          /\ p_num_loops \in 0..MaxLoops
          /\ m_pc = "off" /\ m_num_loops = 0
          /\ m_order_ids = <<>> /\ m_polling = <<>>
       \/ /\ p_pc = "off" /\ p_num_loops = 0
          /\ m_pc = "while"
          /\ m_num_loops \in 0..MaxRounds
          /\ m_order_ids \in {SubSeq(OrderIdPool, 1, n) : n \in 0..MaxOrders}
          /\ m_polling = m_order_ids
    /\ items = <<>> /\ ids_by_date = <<>> /\ order_requests = <<>>
    /\ gpc = "off"
    /\ d_results = <<>> /\ d_overwrite = FALSE /\ d_fs = <<>>
    /\ d_fs0 = <<>> /\ d_idx = 0 /\ d_pc = "off" /\ d_http = <<>>
    /\ d_error = "none"
    /\ u_fs = <<>> /\ u_fs0 = <<>> /\ u_calls = <<>>
    /\ do_caller = "none" /\ do_order_ids = <<>> /\ do_num_loops = 0
    /\ do_endswith = <<>> /\ do_dest = {} /\ do_started = {} /\ do_idx = 0
    /\ do_count = 0 /\ do_files = <<>> /\ do_match = <<>> /\ do_pc = "off"
    /\ do_log = <<>> /\ do_error = "none"
    /\ gi_limit = 0 /\ gi_pages = <<>> /\ gi_loop = 0 /\ gi_cur = 0
    /\ gi_ids = <<>> /\ gi_pc = "off" /\ gi_value = <<>>
    /\ gi_error = "none" /\ gi_fetched = <<>>
    /\ c_files = <<>> /\ c_files0 = <<>> /\ c_compress = FALSE
    /\ c_overwrite = FALSE /\ c_commands = <<>> /\ c_pc = "off"
    /\ c_error = "none"
    /\ a_urls = <<>> /\ a_delay = 0 /\ a_loops = 0 /\ a_disp_id = "none"
    /\ a_loop = 0 /\ a_frame = 0 /\ a_pc = "off" /\ a_log = <<>>
    /\ l_survey = <<>> /\ l_idx = 0 /\ l_features = <<>>
    /\ l_projected = <<>> /\ l_pc = "off" /\ l_value = <<>>
    /\ h_features = <<>> /\ h_map = <<>> /\ h_created = <<>>
    /\ h_deleted = {} /\ h_aois = <<>> /\ h_label = <<>>
    /\ h_error = "none" /\ h_events = 0

PollsNext ==
    \/ PollFetch /\ UNCHANGED <<groupVars, multiVars, dlVars, unzipVars,
            dordVars, itemIdsVars, cdlVars, animVars, truthVars, drawVars>>
    \/ PollSleep /\ UNCHANGED <<groupVars, multiVars, dlVars, unzipVars,
            dordVars, itemIdsVars, cdlVars, animVars, truthVars, drawVars>>
    \/ PollExhausted /\ UNCHANGED <<groupVars, multiVars, dlVars, unzipVars,
            dordVars, itemIdsVars, cdlVars, animVars, truthVars, drawVars>>
    \/ MultiRound /\ UNCHANGED <<groupVars, pollVars, dlVars, unzipVars,
            dordVars, itemIdsVars, cdlVars, animVars, truthVars, drawVars>>
    \/ MultiFetch /\ UNCHANGED <<groupVars, pollVars, dlVars, unzipVars,
            dordVars, itemIdsVars, cdlVars, animVars, truthVars, drawVars>>
    \/ MultiRoundEnd /\ UNCHANGED <<groupVars, pollVars, dlVars, unzipVars,
            dordVars, itemIdsVars, cdlVars, animVars, truthVars, drawVars>>
    \/ MultiExhausted /\ UNCHANGED <<groupVars, pollVars, dlVars, unzipVars,
            dordVars, itemIdsVars, cdlVars, animVars, truthVars, drawVars>>

SpecPolls == PollsInit /\ [][PollsNext]_vars

(***************************************************************************)
(* Properties of the two polls.                                            *)
(***************************************************************************)
IsGet(e) == e.op = "get"
IsSleep(e) == e.op = "sleep"
AnsweredState(e, S) ==
    IsGet(e) /\ e.answer.kind = "state" /\ e.answer.state \in S
Gets(log) == {k \in 1..Len(log) : IsGet(log[k])}
Sleeps(log) == {k \in 1..Len(log) : IsSleep(log[k])}

PollEnded == p_pc \in {"returned", "raised"}
MultiEnded == m_pc \in {"returned", "raised"}

\* C5: in the several-orders poll a fetched state 'failed' raises at once:
\* the fetch that answered 'failed' is the last call of the poll (no sleep
\* and no fetch follows it) and the poll has ended by an exception.
C5_MultiFailedRaisesAtOnce ==
    \A k \in 1..Len(m_log) :
        AnsweredState(m_log[k], {"failed"}) =>
            /\ k = Len(m_log)
            /\ m_pc = "raised"
            /\ m_error # "none"

C5_Witness ==
    /\ m_pc = "raised"
    /\ Len(m_order_ids) = 2
    /\ Len(m_log) = 4
    /\ AnsweredState(m_log[1], success_states)
    /\ AnsweredState(m_log[2], {"running"})
    /\ IsSleep(m_log[3])
    /\ AnsweredState(m_log[4], {"failed"})

\* C6: in the one-order poll the first fetched state among 'success',
\* 'failed', 'partial' ends the poll: that fetch is the last call (no
\* fetch and no sleep follows it) and the function has ended.
C6_PollStopsOnTerminal ==
    \A k \in 1..Len(p_log) :
        AnsweredState(p_log[k], {"success", "failed", "partial"}) =>
            /\ k = Len(p_log)
            /\ PollEnded

C6_Witness ==
    /\ p_pc = "returned"
    /\ Len(p_log) = 3
    /\ AnsweredState(p_log[1], {"queued"})
    /\ IsSleep(p_log[2])
    /\ AnsweredState(p_log[3], {"failed"})
    /\ p_count < p_num_loops

\* C7: in the one-order poll a fetched state 'failed' raises or reports an
\* error: the poll that saw 'failed' ends otherwise than the poll that saw
\* 'success' (which returns None with no error).
C7_PollFailedIsSignalled ==
    (PollEnded /\ \E k \in 1..Len(p_log) : AnsweredState(p_log[k], {"failed"}))
        => (p_pc = "raised" \/ p_error # "none" \/ p_value # "None")

\* C8: when num_loops rounds all ended with an order in a non-terminal
\* state, either poll returns normally, with no timeout error, and its
\* value is None, the value it also returns after a success-like state.
PollExhaustedRun ==
    /\ PollEnded
    /\ Cardinality(Gets(p_log)) = p_num_loops
    /\ \A k \in Gets(p_log) : AnsweredState(p_log[k], ServerStates \ end_states)

MultiExhaustedRun ==
    /\ MultiEnded
    /\ m_count = m_num_loops
    /\ m_polling # <<>>
    /\ \A k \in Gets(m_log) :
           AnsweredState(m_log[k], ServerStates \ {"failed"})

PollSucceededRun ==
    /\ PollEnded
    /\ p_log # <<>>
    /\ AnsweredState(p_log[Len(p_log)], success_states)

MultiSucceededRun ==
    /\ MultiEnded
    /\ m_polling = <<>>
    /\ \A k \in Gets(m_log) :
           AnsweredState(m_log[k], ServerStates \ {"failed"})

C8_ExhaustedReturnsNone ==
    /\ PollExhaustedRun =>
           p_pc = "returned" /\ p_error = "none" /\ p_value = "None"
    /\ MultiExhaustedRun =>
           m_pc = "returned" /\ m_error = "none" /\ m_value = "None"
    /\ PollSucceededRun =>
           p_pc = "returned" /\ p_error = "none" /\ p_value = "None"
    /\ MultiSucceededRun =>
           m_pc = "returned" /\ m_error = "none" /\ m_value = "None"

C8_Witness ==
    /\ MultiExhaustedRun
    /\ m_num_loops = 2
    /\ Len(m_order_ids) = 2
    /\ Len(m_polling) = 1
    /\ Cardinality(Sleeps(m_log)) = 2

\* C9: the several-orders poll returns as soon as every order id has been
\* seen in 'success' or 'partial', with no sleep after the round in which
\* the last one completed; and an order seen in such a state is not fetched
\* again.
SeenDone(oid) ==
    \E k \in 1..Len(m_log) :
        AnsweredState(m_log[k], success_states) /\ m_log[k].oid = oid

C9_MultiStopsWhenAllDone ==
    /\ \A j, k \in 1..Len(m_log) :
           (j < k /\ AnsweredState(m_log[j], success_states) /\ IsGet(m_log[k]))
               => m_log[k].oid # m_log[j].oid
    /\ (m_order_ids # <<>> /\ \A oid \in Range(m_order_ids) : SeenDone(oid)) =>
           /\ IsGet(m_log[Len(m_log)])
           /\ \/ m_pc = "returned"
              \/ m_pc = "for" /\ m_idx > Len(m_snapshot)

C9_Witness ==
    /\ m_pc = "returned"
    /\ Len(m_order_ids) = 2
    /\ Len(m_log) = 4
    /\ AnsweredState(m_log[1], {"running"})
    /\ AnsweredState(m_log[2], {"partial"})
    /\ IsSleep(m_log[3])
    /\ AnsweredState(m_log[4], {"success"})
    /\ m_log[4].oid = m_order_ids[1]
    /\ m_count = 2

(***************************************************************************)
(* ordering_and_delivery.ipynb: download_results(results, overwrite).      *)
(* A path is the sequence of its components.  The file system d_fs maps    *)
(* every existing path to a directory or to a file with its content;       *)
(* d_http lists the urls fetched with requests.get.  A fetch answers with  *)
(* the content the service holds for the url.                              *)
(***************************************************************************)
Dir == [kind |-> "dir", content |-> <<>>]
File(content) == [kind |-> "file", content |-> content]

\* r.content of requests.get(url)
remote_content(url) == <<"bytes of", url>>

\* what an earlier run wrote into a file
stale_content == <<"bytes of", "an earlier run">>

\* the entries an order's results list is made of
ResultPool ==
    { [location |-> "u1", name |-> <<"o1", "manifest.json">>],
      [location |-> "u2", name |-> <<"o1", "files", "a.tif">>],
      [location |-> "u3", name |-> <<"o1", "files", "a_udm2.tif">>],
      [location |-> "u4", name |-> <<"o1", "manifest.json">>] }

\* os.path.join('data', name) as a pathlib.Path
local_path(name) == <<"data">> \o name

\* the proper ancestors of a path, the nearest last
parents(path) == {SubSeq(path, 1, n) : n \in 1..(Len(path) - 1)}

path_exists(fs, path) == path \in DOMAIN fs

is_file(fs, path) == path \in DOMAIN fs /\ fs[path].kind = "file"

\* path.parent.mkdir(parents=True, exist_ok=True): the file system with
\* every missing ancestor made a directory.  An ancestor that is a file is
\* an error: os.mkdir(path.parent) answers EEXIST when path.parent is the
\* file and ENOTDIR when the file is higher up, and nothing is made
mkdir_error(fs, path) ==
    IF is_file(fs, SubSeq(path, 1, Len(path) - 1)) THEN "FileExistsError"
    ELSE IF \E a \in parents(path) : is_file(fs, a) THEN "NotADirectoryError"
    ELSE "none"

\* faulty variant: only the nearest directory is made
mkdir_parents_nearest_only(fs, path) ==
    [q \in DOMAIN fs \cup {SubSeq(path, 1, Len(path) - 1)} |->
        IF q \in DOMAIN fs THEN fs[q] ELSE Dir]

mkdir_parents(fs, path) ==
    [q \in DOMAIN fs \cup parents(path) |->
        IF q \in DOMAIN fs THEN fs[q] ELSE Dir]

\* open(path, 'wb').write(content)
write_file(fs, path, content) ==
    [q \in DOMAIN fs \cup {path} |-> IF q = path THEN File(content) ELSE fs[q]]

\* the test 'overwrite or not path.exists()'
\* faulty variant: existing files are fetched again
should_download_always(overwrite, exists) == TRUE

should_download(overwrite, exists) == overwrite \/ ~exists

\* one pass of 'for url, name in zip(results_urls, results_names)'
DownloadEntry ==
    /\ d_pc = "for"
    /\ d_idx <= Len(d_results)
    /\ LET url  == d_results[d_idx].location
           name == d_results[d_idx].name
           path == local_path(name)
       IN  IF should_download(d_overwrite, path_exists(d_fs, path))
           THEN /\ d_http' = Append(d_http, url)
                /\ IF mkdir_error(d_fs, path) # "none"
                   THEN /\ d_fs' = d_fs
                        /\ d_pc' = "raised"
                        /\ d_error' = mkdir_error(d_fs, path)
                   ELSE IF path_exists(d_fs, path) /\ d_fs[path].kind = "dir"
                   THEN /\ d_fs' = mkdir_parents(d_fs, path)
                        /\ d_pc' = "raised"
                        /\ d_error' = "IsADirectoryError"
                   ELSE /\ d_fs' = write_file(mkdir_parents(d_fs, path), path,
                                              remote_content(url))
                        /\ UNCHANGED <<d_pc, d_error>>
           ELSE UNCHANGED <<d_http, d_fs, d_pc, d_error>>
    /\ d_idx' = d_idx + 1
    /\ UNCHANGED <<d_results, d_overwrite, d_fs0>>

DownloadReturn ==
    /\ d_pc = "for"
    /\ d_idx > Len(d_results)
    /\ d_pc' = "returned"
    /\ UNCHANGED <<d_results, d_overwrite, d_fs, d_fs0, d_idx, d_http, d_error>>

\* the file systems an earlier run of the notebook can have left: some of
\* the results as files with the content of that time, their ancestors,
\* and possibly more of the directories
PoolPaths == {local_path(e.name) : e \in ResultPool}
PoolDirs == UNION {parents(q) : q \in PoolPaths}
EarlierFileSystems ==
    LET all == { [q \in F \cup D |->
                     IF q \in F THEN File(stale_content) ELSE Dir] :
                   F \in SUBSET PoolPaths, D \in SUBSET PoolDirs }
    IN  {fs \in all : \A q \in DOMAIN fs : parents(q) \subseteq DOMAIN fs}

DownloadInit ==
    /\ d_results \in SeqsUpTo(ResultPool, MaxResults)
    /\ d_overwrite \in BOOLEAN
    /\ d_fs \in EarlierFileSystems
    /\ d_fs0 = d_fs
    /\ d_idx = 1 /\ d_pc = "for" /\ d_http = <<>> /\ d_error = "none"
    /\ items = <<>> /\ ids_by_date = <<>> /\ order_requests = <<>>
    /\ gpc = "off"
    /\ p_num_loops = 0 /\ p_count = 0 /\ p_pc = "off" /\ p_log = <<>>
    /\ p_error = "none" /\ p_value = "unset"
    /\ m_order_ids = <<>> /\ m_num_loops = 0 /\ m_count = 0
    /\ m_polling = <<>> /\ m_completed = <<>> /\ m_snapshot = <<>>
    /\ m_idx = 0 /\ m_pc = "off" /\ m_log = <<>> /\ m_error = "none"
    /\ m_value = "unset"
    /\ u_fs = <<>> /\ u_fs0 = <<>> /\ u_calls = <<>>
    /\ do_caller = "none" /\ do_order_ids = <<>> /\ do_num_loops = 0
    /\ do_endswith = <<>> /\ do_dest = {} /\ do_started = {} /\ do_idx = 0
    /\ do_count = 0 /\ do_files = <<>> /\ do_match = <<>> /\ do_pc = "off"
    /\ do_log = <<>> /\ do_error = "none"
    /\ gi_limit = 0 /\ gi_pages = <<>> /\ gi_loop = 0 /\ gi_cur = 0
    /\ gi_ids = <<>> /\ gi_pc = "off" /\ gi_value = <<>>
    /\ gi_error = "none" /\ gi_fetched = <<>>
    /\ c_files = <<>> /\ c_files0 = <<>> /\ c_compress = FALSE
    /\ c_overwrite = FALSE /\ c_commands = <<>> /\ c_pc = "off"
    /\ c_error = "none"
    /\ a_urls = <<>> /\ a_delay = 0 /\ a_loops = 0 /\ a_disp_id = "none"
    /\ a_loop = 0 /\ a_frame = 0 /\ a_pc = "off" /\ a_log = <<>>
    /\ l_survey = <<>> /\ l_idx = 0 /\ l_features = <<>>
    /\ l_projected = <<>> /\ l_pc = "off" /\ l_value = <<>>
    /\ h_features = <<>> /\ h_map = <<>> /\ h_created = <<>>
    /\ h_deleted = {} /\ h_aois = <<>> /\ h_label = <<>>
    /\ h_error = "none" /\ h_events = 0

DownloadNext ==
    \/ DownloadEntry /\ UNCHANGED <<groupVars, pollVars, multiVars,
            unzipVars, dordVars, itemIdsVars, cdlVars, animVars, truthVars,
            drawVars>>
    \/ DownloadReturn /\ UNCHANGED <<groupVars, pollVars, multiVars,
            unzipVars, dordVars, itemIdsVars, cdlVars, animVars, truthVars,
            drawVars>>

SpecDownload == DownloadInit /\ [][DownloadNext]_vars

(***************************************************************************)
(* Properties of download_results.                                         *)
(***************************************************************************)
\* C10: an entry is fetched and written if and only if overwrite is set or
\* data/<name> does not exist when the entry is processed; a skipped entry
\* causes no fetch and leaves the file system as it was.
C10_DownloadIffOverwriteOrMissing ==
    [][ (d_pc = "for" /\ d_idx <= Len(d_results)) =>
          LET e    == d_results[d_idx]
              path == <<"data">> \o e.name
          IN  IF d_overwrite \/ path \notin DOMAIN d_fs
              THEN /\ d_http' = Append(d_http, e.location)
                   /\ path \in DOMAIN d_fs'
                   /\ d_fs'[path] = File(remote_content(e.location))
              ELSE /\ d_http' = d_http
                   /\ d_fs' = d_fs ]_vars

C10_Witness ==
    /\ d_pc = "returned"
    /\ ~d_overwrite
    /\ Len(d_results) = 3
    /\ Len(d_http) = 1
    /\ \E q \in DOMAIN d_fs : d_fs[q] = File(stale_content)
    /\ \E q \in DOMAIN d_fs : d_fs[q].kind = "file" /\ d_fs[q] # File(stale_content)

\* C11: for every entry download_results writes, every ancestor directory
\* of data/<name> exists once the file is written, whether it existed
\* before or not, and the call does not end in an error.
C11_ParentsCreated ==
    [][ (d_pc = "for" /\ d_idx <= Len(d_results)) =>
          LET path == <<"data">> \o d_results[d_idx].name
          IN  (d_overwrite \/ path \notin DOMAIN d_fs) =>
                  /\ \A n \in 1..(Len(path) - 1) :
                         /\ SubSeq(path, 1, n) \in DOMAIN d_fs'
                         /\ d_fs'[SubSeq(path, 1, n)].kind = "dir"
                  /\ path \in DOMAIN d_fs' /\ d_fs'[path].kind = "file"
                  /\ d_pc' = "for" /\ d_error' = "none" ]_vars

\* nothing existed at the call, two files of one directory were written:
\* the first into directories that were missing, the second into
\* directories that existed
C11_Witness ==
    /\ d_pc = "returned"
    /\ d_fs0 = <<>>
    /\ Len(d_results) = 2
    /\ Len(d_http) = 2
    /\ d_results[1].name = <<"o1", "files", "a.tif">>
    /\ d_results[2].name = <<"o1", "files", "a_udm2.tif">>
    /\ <<"data", "o1", "files">> \in DOMAIN d_fs
    /\ d_error = "none"

\* C15: a status fetch of the one-order poll that answers a body that is
\* not JSON, or JSON without 'state', ends the poll at once by the error
\* of that call: no retry, no sleep and no fetch follows.
C15_MalformedAbortsPoll ==
    \A k \in 1..Len(p_log) :
        (IsGet(p_log[k]) /\ p_log[k].answer.kind # "state") =>
            /\ k = Len(p_log)
            /\ p_pc = "raised"
            /\ p_error = (IF p_log[k].answer.kind = "not_json"
                          THEN "JSONDecodeError" ELSE "KeyError")

C15_Witness ==
    /\ p_pc = "raised"
    /\ Len(p_log) = 3
    /\ AnsweredState(p_log[1], {"running"})
    /\ IsSleep(p_log[2])
    /\ IsGet(p_log[3]) /\ p_log[3].answer.kind = "not_json"
    /\ p_count < p_num_loops

(***************************************************************************)
(* ard_2_use_case_1.ipynb, step 6.1: unzip(filename, overwrite).           *)
(* Here a path is a sequence of names and a name is the sequence of its    *)
(* dot-separated pieces, so that Path.stem can drop the last piece.  The   *)
(* file system u_fs maps every existing path to a directory or a file;     *)
(* u_calls lists the calls made, each with how it ended.                   *)
(***************************************************************************)
\* PurePath.stem: the name without its last suffix; a name has a suffix
\* when its last dot is neither its first nor its last character
path_stem(name) ==
    IF /\ Len(name) >= 2
       /\ name[Len(name)] # ""
       /\ ~(Len(name) = 2 /\ name[1] = "")
    THEN SubSeq(name, 1, Len(name) - 1)
    ELSE name

path_parent(path) == SubSeq(path, 1, Len(path) - 1)

\* the name '..' (the name '.' is <<"", "">>)
dotdot == <<"", "", "">>

\* parent / name of pathlib: a '.' is dropped, a '..' is kept
path_join(parent, name) ==
    IF name = <<"", "">> THEN parent ELSE parent \o <<name>>

\* zipdir = location.parent / location.stem
zipdir_of(filename) ==
    path_join(path_parent(filename), path_stem(filename[Len(filename)]))

is_under(dir, path) ==
    Len(dir) <= Len(path) /\ SubSeq(path, 1, Len(dir)) = dir

\* how the system looks a path up from the working directory <<>>: every
\* name is looked up in the directory reached so far, which has to be
\* one (ENOENT when it is missing, ENOTDIR when it is a file), and '..'
\* leads to the directory above.  The file system has no links, and the
\* paths taken stay under the working directory.
RECURSIVE os_resolve(_, _, _)
os_resolve(fs, done, rest) ==
    IF rest = <<>> THEN [err |-> "none", path |-> done]
    ELSE IF done # <<>> /\ done \notin DOMAIN fs
    THEN [err |-> "ENOENT", path |-> done]
    ELSE IF done # <<>> /\ fs[done].kind = "file"
    THEN [err |-> "ENOTDIR", path |-> done]
    ELSE IF Head(rest) = dotdot
    THEN os_resolve(fs, path_parent(done), Tail(rest))
    ELSE os_resolve(fs, done \o <<Head(rest)>>, Tail(rest))

os_path_isdir(fs, path) ==
    LET r == os_resolve(fs, <<>>, path)
    IN  /\ r.err = "none"
        /\ \/ r.path = <<>>
           \/ r.path \in DOMAIN fs /\ fs[r.path].kind = "dir"

\* a directory and everything under it is gone
rmtree(fs, dir) == [q \in {x \in DOMAIN fs : ~is_under(dir, x)} |-> fs[q]]

\* everything under a directory is gone, the directory stays
rmtree_content(fs, dir) ==
    [q \in {x \in DOMAIN fs : ~is_under(dir, x) \/ x = dir} |-> fs[q]]

\* shutil.rmtree(path): what is in the directory is removed, then
\* os.rmdir(path) removes the directory itself.  The rmdir looks the path
\* up once more: it fails with ENOENT when the path leads through a
\* directory that was in the one removed and is gone by then (a path that
\* ends in '..', or one that goes down into the directory and up again),
\* and with EINVAL for the working directory; the emptied directory then
\* stays.  A path that names no directory is an error and nothing is
\* removed
shutil_rmtree(fs, path) ==
    LET r       == os_resolve(fs, <<>>, path)
        emptied == rmtree_content(fs, r.path)
    IN  IF r.err = "ENOTDIR" \/ is_file(fs, r.path)
        THEN [error |-> "NotADirectoryError", fs |-> fs]
        ELSE IF r.err = "ENOENT" \/ (r.path # <<>> /\ r.path \notin DOMAIN fs)
        THEN [error |-> "FileNotFoundError", fs |-> fs]
        ELSE IF os_resolve(emptied, <<>>, path).err # "none"
        THEN [error |-> "FileNotFoundError", fs |-> emptied]
        ELSE IF r.path = <<>>
        THEN [error |-> "OSError", fs |-> emptied]
        ELSE [error |-> "none", fs |-> rmtree(fs, r.path)]

\* the downloaded archives and what each holds: member path -> content
data_dir == << <<"data">>, <<"use_case_1">> >>
ArchiveFiles ==
    { data_dir \o << <<"2019-04-02_e0", "zip">> >>,
      data_dir \o << <<"2019-04-08_05", "zip">> >> }

\* archives in the same directory under the names '..a' and '...a', whose
\* stems are '.' and '..'
DotArchiveFiles ==
    { data_dir \o << <<"", "", "a">> >>,
      data_dir \o << <<"", "", "", "a">> >> }
ArchiveMembers ==
    { << <<"manifest", "json">> >>,
      << <<"files">>, <<"composite", "tif">> >>,
      << <<"files">>, <<"composite_udm2", "tif">> >> }
member_content(filename, member) == <<"member", filename, member>>

\* the content of a file that is a zip archive of ArchiveMembers
zip_content == <<"zip">>

\* ZipFile(location): the error of opening and reading the archive; open()
\* answers ENOTDIR when a directory of the path is a regular file, ENOENT
\* when the path leads to nothing
ZipFile_error(fs, filename) ==
    LET r == os_resolve(fs, <<>>, filename)
    IN  IF r.err = "ENOTDIR" THEN "NotADirectoryError"
        ELSE IF r.err = "ENOENT" THEN "FileNotFoundError"
        ELSE IF r.path = <<>> THEN "IsADirectoryError"
        ELSE IF r.path \notin DOMAIN fs THEN "FileNotFoundError"
        ELSE IF fs[r.path].kind = "dir" THEN "IsADirectoryError"
        ELSE IF fs[r.path].content # zip_content THEN "BadZipFile"
        ELSE "none"

\* extractall(zipdir) fails before anything is written when zipdir is a
\* file: no member can be opened or given a directory under it
extractall_error(fs, zipdir) ==
    IF is_file(fs, os_resolve(fs, <<>>, zipdir).path)
    THEN "NotADirectoryError"
    ELSE "none"

\* ZipFile(location).extractall(zipdir): zipdir and the directories of the
\* members are made when missing, every member is written, a file already
\* at a member's path is overwritten, everything else stays
extractall(fs, filename, zipdir) ==
    LET files == {zipdir \o m : m \in ArchiveMembers}
        dirs  == {SubSeq(q, 1, n) : q \in files, n \in 1..Len(zipdir)}
                     \cup UNION {{SubSeq(q, 1, n) : n \in Len(zipdir)..(Len(q) - 1)}
                                    : q \in files}
    IN  [q \in DOMAIN fs \cup files \cup dirs |->
            IF q \in files
            THEN File(member_content(filename,
                                     SubSeq(q, Len(zipdir) + 1, Len(q))))
            ELSE IF q \in DOMAIN fs THEN fs[q]
            ELSE Dir]

\* what unzip does about a zipdir that exists: remove it when overwrite is
\* set, raise otherwise
\* faulty variant: the directory is removed before the exception
unzip_on_existing_remove_first(fs, zipdir, overwrite) ==
    IF overwrite THEN shutil_rmtree(fs, zipdir)
    ELSE [error |-> "Exception", fs |-> shutil_rmtree(fs, zipdir).fs]

unzip_on_existing(fs, zipdir, overwrite) ==
    IF overwrite THEN shutil_rmtree(fs, zipdir)
    ELSE [error |-> "Exception", fs |-> fs]

\* unzip(filename, overwrite): the file system after the call, how the call
\* ended and what it returned
unzip(fs, filename, overwrite) ==
    LET zipdir == zipdir_of(filename)
        first  == IF os_path_isdir(fs, zipdir)
                  THEN unzip_on_existing(fs, zipdir, overwrite)
                  ELSE [error |-> "none", fs |-> fs]
    IN  IF first.error # "none"
        THEN [fs |-> first.fs, outcome |-> "raised", error |-> first.error,
              value |-> <<>>]
        ELSE IF ZipFile_error(first.fs, filename) # "none"
        THEN [fs |-> first.fs, outcome |-> "raised",
              error |-> ZipFile_error(first.fs, filename), value |-> <<>>]
        ELSE IF extractall_error(first.fs, zipdir) # "none"
        THEN [fs |-> first.fs, outcome |-> "raised",
              error |-> extractall_error(first.fs, zipdir), value |-> <<>>]
        ELSE [fs |-> extractall(first.fs, filename,
                                os_resolve(first.fs, <<>>, zipdir).path),
              outcome |-> "returned", error |-> "none", value |-> zipdir]

UnzipCall ==
    /\ Len(u_calls) < MaxUnzipCalls
    /\ \E filename \in ArchiveFiles \cup DotArchiveFiles,
          overwrite \in BOOLEAN :
          LET r == unzip(u_fs, filename, overwrite)
          IN  /\ u_fs' = r.fs
              /\ u_calls' = Append(u_calls,
                     [filename |-> filename, overwrite |-> overwrite,
                      outcome |-> r.outcome, error |-> r.error,
                      value |-> r.value])
    /\ UNCHANGED u_fs0

\* the download directory with the archives in it; next to each archive
\* of ArchiveFiles its directory may be there already: empty, as an earlier extraction
\* left it, or with files of an earlier content and a file the archive
\* does not hold
leftover_member == << <<"files">>, <<"old_composite", "tif">> >>
ZipdirContents ==
    { {}, ArchiveMembers, {leftover_member},
      ArchiveMembers \cup {leftover_member} }
UnzipFileSystems ==
    LET base == [q \in {SubSeq(data_dir, 1, n) : n \in 1..Len(data_dir)}
                          \cup ArchiveFiles \cup DotArchiveFiles |->
                    IF q \in ArchiveFiles \cup DotArchiveFiles
                    THEN File(zip_content) ELSE Dir]
        RECURSIVE with(_, _)
        with(fs, todo) ==
            IF todo = {} THEN {fs}
            ELSE LET f == CHOOSE x \in todo : TRUE
                     zd == zipdir_of(f)
                     there(ms) ==
                         LET files == {zd \o m : m \in ms}
                             dirs  == {zd} \cup
                                 UNION {{SubSeq(q, 1, n) :
                                            n \in Len(zd)..(Len(q) - 1)}
                                        : q \in files}
                         IN  [q \in DOMAIN fs \cup files \cup dirs |->
                                 IF q \in files THEN File(stale_content)
                                 ELSE IF q \in DOMAIN fs THEN fs[q]
                                 ELSE Dir]
                 IN  UNION {with(g, todo \ {f}) :
                               g \in {fs} \cup {there(ms) : ms \in ZipdirContents}}
    IN  with(base, ArchiveFiles)

UnzipInit ==
    /\ u_fs \in UnzipFileSystems
    /\ u_fs0 = u_fs
    /\ u_calls = <<>>
    /\ items = <<>> /\ ids_by_date = <<>> /\ order_requests = <<>>
    /\ gpc = "off"
    /\ p_num_loops = 0 /\ p_count = 0 /\ p_pc = "off" /\ p_log = <<>>
    /\ p_error = "none" /\ p_value = "unset"
    /\ m_order_ids = <<>> /\ m_num_loops = 0 /\ m_count = 0
    /\ m_polling = <<>> /\ m_completed = <<>> /\ m_snapshot = <<>>
    /\ m_idx = 0 /\ m_pc = "off" /\ m_log = <<>> /\ m_error = "none"
    /\ m_value = "unset"
    /\ d_results = <<>> /\ d_overwrite = FALSE /\ d_fs = <<>>
    /\ d_fs0 = <<>> /\ d_idx = 0 /\ d_pc = "off" /\ d_http = <<>>
    /\ d_error = "none"
    /\ do_caller = "none" /\ do_order_ids = <<>> /\ do_num_loops = 0
    /\ do_endswith = <<>> /\ do_dest = {} /\ do_started = {} /\ do_idx = 0
    /\ do_count = 0 /\ do_files = <<>> /\ do_match = <<>> /\ do_pc = "off"
    /\ do_log = <<>> /\ do_error = "none"
    /\ gi_limit = 0 /\ gi_pages = <<>> /\ gi_loop = 0 /\ gi_cur = 0
    /\ gi_ids = <<>> /\ gi_pc = "off" /\ gi_value = <<>>
    /\ gi_error = "none" /\ gi_fetched = <<>>
    /\ c_files = <<>> /\ c_files0 = <<>> /\ c_compress = FALSE
    /\ c_overwrite = FALSE /\ c_commands = <<>> /\ c_pc = "off"
    /\ c_error = "none"
    /\ a_urls = <<>> /\ a_delay = 0 /\ a_loops = 0 /\ a_disp_id = "none"
    /\ a_loop = 0 /\ a_frame = 0 /\ a_pc = "off" /\ a_log = <<>>
    /\ l_survey = <<>> /\ l_idx = 0 /\ l_features = <<>>
    /\ l_projected = <<>> /\ l_pc = "off" /\ l_value = <<>>
    /\ h_features = <<>> /\ h_map = <<>> /\ h_created = <<>>
    /\ h_deleted = {} /\ h_aois = <<>> /\ h_label = <<>>
    /\ h_error = "none" /\ h_events = 0

UnzipNext ==
    \/ UnzipCall /\ UNCHANGED <<groupVars, pollVars, multiVars, dlVars,
            dordVars, itemIdsVars, cdlVars, animVars, truthVars, drawVars>>

SpecUnzip == UnzipInit /\ [][UnzipNext]_vars

\* what the claims about unzip speak of
LastCall == u_calls'[Len(u_calls')]
IsUnzipStep == Len(u_calls') = Len(u_calls) + 1
\* the directory <parent of filename>/<stem of filename> for a name with a
\* suffix: the parent itself when the stem is '.', the directory above it
\* when the stem is '..'
TargetDir(filename) ==
    LET name   == filename[Len(filename)]
        stem   == SubSeq(name, 1, Len(name) - 1)
        parent == SubSeq(filename, 1, Len(filename) - 1)
    IN  IF stem = <<"", "">> THEN parent
        ELSE IF stem = <<"", "", "">> THEN SubSeq(parent, 1, Len(parent) - 1)
        ELSE parent \o <<stem>>
\* that directory exists: the path names a directory, which for a stem
\* '..' takes the parent to be one as well
TargetExists(fs, filename) ==
    LET target == TargetDir(filename)
        parent == SubSeq(filename, 1, Len(filename) - 1)
    IN  /\ target \in DOMAIN fs /\ fs[target].kind = "dir"
        /\ Len(target) < Len(parent) =>
               (parent \in DOMAIN fs /\ fs[parent].kind = "dir")
Under(fs, dir) == {q \in DOMAIN fs : is_under(dir, q) /\ q # dir}
FilesUnder(fs, dir) == {q \in Under(fs, dir) : fs[q].kind = "file"}

\* C12: a call of unzip that returns has extracted every member of the
\* archive into <parent of filename>/<stem of filename> and returns that
\* directory; a call made with overwrite False while that directory exists
\* raises and leaves the file system as it was.
C12_UnzipTargetAndRefusal ==
    [][ IsUnzipStep =>
          LET c == LastCall
              target == TargetDir(c.filename)
          IN  /\ c.outcome = "returned" =>
                    /\ c.value = target
                    /\ \A m \in ArchiveMembers :
                          /\ target \o m \in DOMAIN u_fs'
                          /\ u_fs'[target \o m] =
                                 File(member_content(c.filename, m))
              /\ (~c.overwrite /\ TargetExists(u_fs, c.filename)) =>
                    /\ c.outcome = "raised"
                    /\ c.error = "Exception"
                    /\ u_fs' = u_fs ]_vars

\* a first call extracted into a missing directory, a second call on the
\* same archive without overwrite was refused
C12_Witness ==
    /\ Len(u_calls) = 2
    /\ u_calls[1].filename = u_calls[2].filename
    /\ TargetDir(u_calls[1].filename) \notin DOMAIN u_fs0
    /\ u_calls[1].outcome = "returned"
    /\ ~u_calls[2].overwrite
    /\ u_calls[2].outcome = "raised"
    /\ FilesUnder(u_fs, TargetDir(u_calls[1].filename)) # {}

\* C13: a call of unzip with overwrite True on an existing directory leaves
\* in that directory exactly the members of the archive (and the
\* directories that hold them), nothing of the earlier content; a second
\* such call right after the first changes nothing.
C13_OverwriteReplacesContent ==
    [][ IsUnzipStep =>
          LET c == LastCall
              target == TargetDir(c.filename)
          IN  (c.overwrite /\ TargetExists(u_fs, c.filename)) =>
                 /\ c.outcome = "returned"
                 /\ FilesUnder(u_fs', target) =
                        {target \o m : m \in ArchiveMembers}
                 /\ \A m \in ArchiveMembers :
                        u_fs'[target \o m] =
                            File(member_content(c.filename, m))
                 /\ \A q \in Under(u_fs', target) :
                        u_fs'[q].kind = "dir" =>
                            \E m \in ArchiveMembers : is_under(q, target \o m)
                 /\ (/\ u_calls # <<>>
                     /\ u_calls[Len(u_calls)].filename = c.filename
                     /\ u_calls[Len(u_calls)].overwrite
                     /\ u_calls[Len(u_calls)].outcome = "returned")
                        => u_fs' = u_fs ]_vars


(***************************************************************************)
(* ard_2_use_case_1.ipynb, step 5.2: download_orders, download_order and   *)
(* poll_for_download.  dl.download hands the order to the downloader and   *)
(* returns; the archive shows up in dest later, or never.  do_dest is the  *)
(* listing of dest: entries with a name (a text) and a kind.  do_log lists *)
(* the calls of dl.download, the checks of dest, the sleeps and the        *)
(* returns of download_order.  poll_for_download is run either by          *)
(* download_order (with its default num_loops) or on its own.              *)
(***************************************************************************)
dest_dir == "data/use_case_1"

\* '{}.zip'.format(order_id)
zip_suffix(order_id) == order_id \o <<".", "z", "i", "p">>

\* the name the downloader gives the archive of an order
archive_name(order_id) == <<"n", "_">> \o zip_suffix(order_id)

\* str.endswith
str_endswith(text, suffix) ==
    /\ Len(suffix) <= Len(text)
    /\ SubSeq(text, Len(text) - Len(suffix) + 1, Len(text)) = suffix

\* os.path.join(dest, f)
os_path_join(dest, f) == <<dest, f>>

\* the names poll_for_download's generator can yield
\* faulty variant: directories are yielded too
matched_files_any_kind(listing, endswith) ==
    {e.name : e \in {x \in listing : str_endswith(x.name, endswith)}}

matched_files(listing, endswith) ==
    {e.name : e \in {x \in listing :
                        x.kind = "file" /\ str_endswith(x.name, endswith)}}

\* download_order after dl.download(urls, [], dest)
\* faulty variant: download_order returns without waiting for the archive
after_download_call_no_wait(idx) == [pc |-> "for", idx |-> idx + 1]

after_download_call(idx) == [pc |-> "while", idx |-> idx]

DlEvent(kind, order, found) == [kind |-> kind, order |-> order, found |-> found]
CurrentOrder ==
    IF do_caller = "download_orders" THEN do_order_ids[do_idx] ELSE <<>>
CurrentSuffix ==
    IF do_caller = "download_orders" THEN zip_suffix(do_order_ids[do_idx])
    ELSE do_endswith

\* 'if filename: files.append(filename)' (<<>> stands for None)
\* faulty variant: what download_order returned is appended in any case
files_append_always(files, filename) == Append(files, filename)

files_append(files, filename) ==
    IF filename # <<>> THEN Append(files, filename) ELSE files

\* poll_for_download returns match (<<>> stands for None): download_order
\* returns it, download_orders appends it when it is not None and goes on
\* with the next order
PollForDownloadReturns(match, log) ==
    /\ do_match' = match
    /\ IF do_caller = "download_orders"
       THEN /\ do_files' = files_append(do_files, match)
            /\ do_idx' = do_idx + 1
            /\ do_pc' = "for"
            /\ do_log' = Append(log, DlEvent("done", CurrentOrder, match # <<>>))
       ELSE /\ do_pc' = "returned"
            /\ do_log' = log
            /\ UNCHANGED <<do_files, do_idx>>

\* for order_id in order_ids: download_order up to dl.download
OrdersStart ==
    /\ do_pc = "for"
    /\ do_idx <= Len(do_order_ids)
    /\ do_log' = Append(do_log, DlEvent("start", do_order_ids[do_idx], FALSE))
    /\ do_started' = do_started \cup {do_order_ids[do_idx]}
    /\ do_pc' = after_download_call(do_idx).pc
    /\ do_idx' = after_download_call(do_idx).idx
    /\ do_count' = 0
    /\ UNCHANGED <<do_caller, do_order_ids, do_num_loops, do_endswith,
                   do_dest, do_files, do_match, do_error>>

\* return files
OrdersReturn ==
    /\ do_pc = "for"
    /\ do_idx > Len(do_order_ids)
    /\ do_pc' = "returned"
    /\ UNCHANGED <<do_caller, do_order_ids, do_num_loops, do_endswith,
                   do_dest, do_started, do_idx, do_count, do_files,
                   do_match, do_log, do_error>>

\* one pass of the while body up to the sleep
DlCheck ==
    /\ do_pc = "while"
    /\ do_count < do_num_loops
    /\ do_count' = do_count + 1
    /\ LET found == matched_files(do_dest, CurrentSuffix)
       IN  IF found # {}
           THEN \E f \in found :
                   PollForDownloadReturns(os_path_join(dest_dir, f),
                       Append(do_log, DlEvent("check", CurrentOrder, TRUE)))
           ELSE /\ do_log' = Append(do_log, DlEvent("check", CurrentOrder, FALSE))
                /\ do_pc' = "sleep"
                /\ UNCHANGED <<do_files, do_idx, do_match>>
    /\ UNCHANGED <<do_caller, do_order_ids, do_num_loops, do_endswith,
                   do_dest, do_started, do_error>>

\* time.sleep(10)
DlSleep ==
    /\ do_pc = "sleep"
    /\ do_log' = Append(do_log, DlEvent("sleep", CurrentOrder, FALSE))
    /\ do_pc' = "while"
    /\ UNCHANGED <<do_caller, do_order_ids, do_num_loops, do_endswith,
                   do_dest, do_started, do_idx, do_count, do_files,
                   do_match, do_error>>

\* the while condition fails: 'return match'; with no pass made the name
\* match was never assigned and the return raises UnboundLocalError
DlExhausted ==
    /\ do_pc = "while"
    /\ do_count >= do_num_loops
    /\ IF do_count = 0
       THEN /\ do_pc' = "raised"
            /\ do_error' = "UnboundLocalError"
            /\ UNCHANGED <<do_files, do_idx, do_match, do_log>>
       ELSE /\ PollForDownloadReturns(<<>>, do_log)
            /\ UNCHANGED do_error
    /\ UNCHANGED <<do_caller, do_order_ids, do_num_loops, do_endswith,
                   do_dest, do_started, do_count>>

\* the downloader finishes writing the archive of an order handed to it
FileArrives ==
    /\ do_pc \in {"for", "while", "sleep"}
    /\ \E oid \in do_started :
          /\ [name |-> archive_name(oid), kind |-> "file"] \notin do_dest
          /\ do_dest' = do_dest \cup {[name |-> archive_name(oid), kind |-> "file"]}
    /\ UNCHANGED <<do_caller, do_order_ids, do_num_loops, do_endswith,
                   do_started, do_idx, do_count, do_files, do_match,
                   do_pc, do_log, do_error>>

\* order ids are pairwise distinct
OrderIdLists ==
    {s \in SeqsUpTo(Range(OrderIdPool), MaxOrders) :
        \A a, b \in 1..Len(s) : a # b => s[a] # s[b]}

\* dest before the call: empty, or with a file of another kind, a directory
\* whose name ends like an archive's, and the archive an earlier run
\* downloaded for an order
DestListings ==
    LET other == [name |-> <<"l", "o", "g">>, kind |-> "file"]
        dir   == [name |-> <<"d", "_">> \o zip_suffix(OrderIdPool[1]),
                  kind |-> "dir"]
        old   == [name |-> archive_name(OrderIdPool[2]), kind |-> "file"]
    IN  {{}, {other, dir}, {other, dir, old}}

OrdersInit ==
    /\ do_dest \in DestListings
    /\ do_idx = 1 /\ do_count = 0 /\ do_files = <<>> /\ do_match = <<>>
    /\ do_log = <<>> /\ do_error = "none"
    /\ \/ /\ do_caller = "download_orders"
          /\ do_order_ids \in OrderIdLists
          /\ do_num_loops = MaxDlLoops
          /\ do_endswith = <<>>
          /\ do_started = {}
          /\ do_pc = "for"
       \/ /\ do_caller = "notebook"
          /\ do_order_ids = <<>>
          /\ do_num_loops \in 0..MaxDlLoops
          /\ \E oid \in Range(OrderIdPool) :
                /\ do_endswith = zip_suffix(oid)
                /\ do_started \in {{}, {oid}}
          /\ do_pc = "while"
    /\ items = <<>> /\ ids_by_date = <<>> /\ order_requests = <<>>
    /\ gpc = "off"
    /\ p_num_loops = 0 /\ p_count = 0 /\ p_pc = "off" /\ p_log = <<>>
    /\ p_error = "none" /\ p_value = "unset"
    /\ m_order_ids = <<>> /\ m_num_loops = 0 /\ m_count = 0
    /\ m_polling = <<>> /\ m_completed = <<>> /\ m_snapshot = <<>>
    /\ m_idx = 0 /\ m_pc = "off" /\ m_log = <<>> /\ m_error = "none"
    /\ m_value = "unset"
    /\ d_results = <<>> /\ d_overwrite = FALSE /\ d_fs = <<>>
    /\ d_fs0 = <<>> /\ d_idx = 0 /\ d_pc = "off" /\ d_http = <<>>
    /\ d_error = "none"
    /\ u_fs = <<>> /\ u_fs0 = <<>> /\ u_calls = <<>>
    /\ gi_limit = 0 /\ gi_pages = <<>> /\ gi_loop = 0 /\ gi_cur = 0
    /\ gi_ids = <<>> /\ gi_pc = "off" /\ gi_value = <<>>
    /\ gi_error = "none" /\ gi_fetched = <<>>
    /\ c_files = <<>> /\ c_files0 = <<>> /\ c_compress = FALSE
    /\ c_overwrite = FALSE /\ c_commands = <<>> /\ c_pc = "off"
    /\ c_error = "none"
    /\ a_urls = <<>> /\ a_delay = 0 /\ a_loops = 0 /\ a_disp_id = "none"
    /\ a_loop = 0 /\ a_frame = 0 /\ a_pc = "off" /\ a_log = <<>>
    /\ l_survey = <<>> /\ l_idx = 0 /\ l_features = <<>>
    /\ l_projected = <<>> /\ l_pc = "off" /\ l_value = <<>>
    /\ h_features = <<>> /\ h_map = <<>> /\ h_created = <<>>
    /\ h_deleted = {} /\ h_aois = <<>> /\ h_label = <<>>
    /\ h_error = "none" /\ h_events = 0

OrdersNext ==
    \/ OrdersStart /\ UNCHANGED <<groupVars, pollVars, multiVars, dlVars,
            unzipVars, itemIdsVars, cdlVars, animVars, truthVars, drawVars>>
    \/ OrdersReturn /\ UNCHANGED <<groupVars, pollVars, multiVars, dlVars,
            unzipVars, itemIdsVars, cdlVars, animVars, truthVars, drawVars>>
    \/ DlCheck /\ UNCHANGED <<groupVars, pollVars, multiVars, dlVars,
            unzipVars, itemIdsVars, cdlVars, animVars, truthVars, drawVars>>
    \/ DlSleep /\ UNCHANGED <<groupVars, pollVars, multiVars, dlVars,
            unzipVars, itemIdsVars, cdlVars, animVars, truthVars, drawVars>>
    \/ DlExhausted /\ UNCHANGED <<groupVars, pollVars, multiVars, dlVars,
            unzipVars, itemIdsVars, cdlVars, animVars, truthVars, drawVars>>
    \/ FileArrives /\ UNCHANGED <<groupVars, pollVars, multiVars, dlVars,
            unzipVars, itemIdsVars, cdlVars, animVars, truthVars, drawVars>>

SpecOrders == OrdersInit /\ [][OrdersNext]_vars

\* what the claims about download_orders speak of
StartsUpTo(k) == Cardinality({i \in 1..k : do_log[i].kind = "start"})

\* C14: download_orders hands the orders to the downloader in the order of
\* order_ids, and an order is handed over only right after download_order
\* has returned for the order before it; every check of dest and every
\* sleep in between is made for the order handed over last.
C14_OrdersOneAtATime ==
    do_caller = "download_orders" =>
        \A k \in 1..Len(do_log) :
            LET j == StartsUpTo(k)
            IN  /\ j >= 1 /\ j <= Len(do_order_ids)
                /\ do_log[k].order = do_order_ids[j]
                /\ (do_log[k].kind = "start" /\ j > 1) =>
                       /\ do_log[k - 1].kind = "done"
                       /\ do_log[k - 1].order = do_order_ids[j - 1]
                /\ do_log[k].kind = "done" =>
                       do_log[k - 1].kind \in {"check", "sleep"}

\* two orders, the archive of the first was waited for, both were found
C14_Witness ==
    /\ do_caller = "download_orders"
    /\ do_pc = "returned"
    /\ Len(do_order_ids) = 2
    /\ Len(do_files) = 2
    /\ StartsUpTo(Len(do_log)) = 2
    /\ do_log[2] = DlEvent("check", do_order_ids[1], FALSE)
    /\ do_log[3].kind = "sleep"

(***************************************************************************)
(* visualize_imagery_over_time.ipynb: get_item_ids.  The search answers    *)
(* with a chain of pages; gi_pages lists the 'features' ids of each, and   *)
(* every page but the last has a 'next' link to the page after it.  The    *)
(* last page has none (gi_loop = 0) or one that leads back to page gi_loop *)
(* of the chain, a service that never stops handing out links.  gi_cur is  *)
(* the page held in 'results', gi_fetched lists the pages requested.  An   *)
(* answer may also be an error body with no 'features'.  The chains taken  *)
(* are those on which the loop comes to an end, the finite ones and those  *)
(* with a feature on a page of the loop; on a loop of pages without        *)
(* features the function requests pages for ever once it is short of ids.  *)
(***************************************************************************)
\* [f['id'] for f in results['features']] of page k
feature_ids(pages, k) == pages[k]

\* results['_links'].get('next'): the page it leads to, 0 when there is none
next_link(pages, loop, k) == IF k < Len(pages) THEN k + 1 ELSE loop

\* the while condition: len(ids) < limit and results['_links'].get('next')
\* faulty variant: links are followed whatever the number of ids
keep_following_any_number(ids, limit, next) == next # 0

keep_following(ids, limit, next) == Len(ids) < limit /\ next # 0

\* ids[:limit] for limit >= 0
\* faulty variant: the list is returned whole
slice_to_whole(ids, limit) == ids

slice_to(ids, limit) ==
    SubSeq(ids, 1, IF limit < Len(ids) THEN limit ELSE Len(ids))

\* resp = session.post(...); results = resp.json(); ids = [...]
ItemIdsSearch ==
    /\ gi_pc = "post"
    /\ gi_fetched' = Append(gi_fetched, 1)
    /\ \/ /\ gi_cur' = 1
          /\ gi_ids' = feature_ids(gi_pages, 1)
          /\ gi_pc' = "while"
          /\ UNCHANGED gi_error
       \/ /\ gi_pc' = "raised"
          /\ gi_error' = "KeyError"
          /\ UNCHANGED <<gi_cur, gi_ids>>
    /\ UNCHANGED <<gi_limit, gi_pages, gi_loop, gi_value>>

\* one pass of the while body
ItemIdsFollow ==
    /\ gi_pc = "while"
    /\ keep_following(gi_ids, gi_limit, next_link(gi_pages, gi_loop, gi_cur))
    /\ LET next == next_link(gi_pages, gi_loop, gi_cur)
       IN  /\ gi_fetched' = Append(gi_fetched, next)
           /\ \/ /\ gi_cur' = next
                 /\ gi_ids' = gi_ids \o feature_ids(gi_pages, next)
                 /\ UNCHANGED <<gi_pc, gi_error>>
              \/ /\ gi_pc' = "raised"
                 /\ gi_error' = "KeyError"
                 /\ UNCHANGED <<gi_cur, gi_ids>>
    /\ UNCHANGED <<gi_limit, gi_pages, gi_loop, gi_value>>

\* return ids[:limit]
ItemIdsReturn ==
    /\ gi_pc = "while"
    /\ ~keep_following(gi_ids, gi_limit, next_link(gi_pages, gi_loop, gi_cur))
    /\ gi_value' = slice_to(gi_ids, gi_limit)
    /\ gi_pc' = "returned"
    /\ UNCHANGED <<gi_limit, gi_pages, gi_loop, gi_cur, gi_ids, gi_error,
                   gi_fetched>>

\* the pages of a search: the matching items <<"item", 1>>, <<"item", 2>>,
\* ... cut into pages of up to MaxPageLen features
RECURSIVE cut_pages(_, _)
cut_pages(sizes, from) ==
    IF sizes = <<>> THEN <<>>
    ELSE <<[n \in 1..Head(sizes) |-> <<"item", from + n>>]>>
             \o cut_pages(Tail(sizes), from + Head(sizes))
SearchPages ==
    {cut_pages(sizes, 0) :
        sizes \in {s \in SeqsUpTo(0..MaxPageLen, MaxPages) : s # <<>>}}

\* where the link of the last page can lead: nowhere (0), or back to a
\* page from which on some page has features
LoopTargets(pages) ==
    {0} \cup {k \in 1..Len(pages) : \E j \in k..Len(pages) : pages[j] # <<>>}

ItemIdsInit ==
    /\ gi_limit \in 0..MaxLimit
    /\ gi_pages \in SearchPages
    /\ gi_loop \in LoopTargets(gi_pages)
    /\ gi_cur = 0 /\ gi_ids = <<>> /\ gi_pc = "post"
    /\ gi_value = <<>> /\ gi_error = "none" /\ gi_fetched = <<>>
    /\ items = <<>> /\ ids_by_date = <<>> /\ order_requests = <<>>
    /\ gpc = "off"
    /\ p_num_loops = 0 /\ p_count = 0 /\ p_pc = "off" /\ p_log = <<>>
    /\ p_error = "none" /\ p_value = "unset"
    /\ m_order_ids = <<>> /\ m_num_loops = 0 /\ m_count = 0
    /\ m_polling = <<>> /\ m_completed = <<>> /\ m_snapshot = <<>>
    /\ m_idx = 0 /\ m_pc = "off" /\ m_log = <<>> /\ m_error = "none"
    /\ m_value = "unset"
    /\ d_results = <<>> /\ d_overwrite = FALSE /\ d_fs = <<>>
    /\ d_fs0 = <<>> /\ d_idx = 0 /\ d_pc = "off" /\ d_http = <<>>
    /\ d_error = "none"
    /\ u_fs = <<>> /\ u_fs0 = <<>> /\ u_calls = <<>>
    /\ do_caller = "none" /\ do_order_ids = <<>> /\ do_num_loops = 0
    /\ do_endswith = <<>> /\ do_dest = {} /\ do_started = {} /\ do_idx = 0
    /\ do_count = 0 /\ do_files = <<>> /\ do_match = <<>> /\ do_pc = "off"
    /\ do_log = <<>> /\ do_error = "none"
    /\ c_files = <<>> /\ c_files0 = <<>> /\ c_compress = FALSE
    /\ c_overwrite = FALSE /\ c_commands = <<>> /\ c_pc = "off"
    /\ c_error = "none"
    /\ a_urls = <<>> /\ a_delay = 0 /\ a_loops = 0 /\ a_disp_id = "none"
    /\ a_loop = 0 /\ a_frame = 0 /\ a_pc = "off" /\ a_log = <<>>
    /\ l_survey = <<>> /\ l_idx = 0 /\ l_features = <<>>
    /\ l_projected = <<>> /\ l_pc = "off" /\ l_value = <<>>
    /\ h_features = <<>> /\ h_map = <<>> /\ h_created = <<>>
    /\ h_deleted = {} /\ h_aois = <<>> /\ h_label = <<>>
    /\ h_error = "none" /\ h_events = 0

ItemIdsNext ==
    \/ ItemIdsSearch /\ UNCHANGED <<groupVars, pollVars, multiVars, dlVars,
            unzipVars, dordVars, cdlVars, animVars, truthVars, drawVars>>
    \/ ItemIdsFollow /\ UNCHANGED <<groupVars, pollVars, multiVars, dlVars,
            unzipVars, dordVars, cdlVars, animVars, truthVars, drawVars>>
    \/ ItemIdsReturn /\ UNCHANGED <<groupVars, pollVars, multiVars, dlVars,
            unzipVars, dordVars, cdlVars, animVars, truthVars, drawVars>>

SpecItemIds == ItemIdsInit /\ [][ItemIdsNext]_vars

\* the ids of the first k pages answered, page after page (an error body
\* has none)
RECURSIVE IdsOfPages(_, _)
IdsOfPages(fetched, k) ==
    IF k = 0 THEN <<>>
    ELSE IdsOfPages(fetched, k - 1) \o gi_pages[fetched[k]]

\* C16: what get_item_ids returns has at most limit ids and is the first
\* min(limit, total) ids of the ids of the pages it fetched, page after
\* page, total being the number of those ids.
C16_FirstLimitIds ==
    gi_pc = "returned" =>
        LET all == IdsOfPages(gi_fetched, Len(gi_fetched))
            n   == IF gi_limit < Len(all) THEN gi_limit ELSE Len(all)
        IN  /\ Len(gi_value) <= gi_limit
            /\ Len(gi_value) = n
            /\ \A k \in 1..n : gi_value[k] = all[k]

\* two pages were fetched, the second went over the limit and was cut
C16_Witness ==
    /\ gi_pc = "returned"
    /\ gi_cur = 2
    /\ gi_limit = 3
    /\ Len(gi_pages[1]) = 2 /\ Len(gi_pages[2]) = 2
    /\ gi_value = <<<<"item", 1>>, <<"item", 2>>, <<"item", 3>>>>

(***************************************************************************)
(* datasets-identify.ipynb: prepare_cdl_image.  c_files maps the name of   *)
(* every raster file that exists to its shape <<rows, columns>>, the       *)
(* value of rasterio's dataset.shape.  A command line is a sequence of     *)
(* arguments and an argument is a text; c_commands lists the command       *)
(* lines run.  gdalwarp and gdal_translate are taken to succeed.           *)
(***************************************************************************)
Digits == <<"0", "1", "2", "3", "4", "5", "6", "7", "8", "9">>

\* str(n) for n >= 0: the decimal digits of n
RECURSIVE str_int(_)
str_int(n) ==
    IF n < 10 THEN <<Digits[n + 1]>>
    ELSE str_int(n \div 10) \o <<Digits[(n % 10) + 1]>>

\* the number gdalwarp reads from a decimal text
RECURSIVE parse_int(_)
parse_int(text) ==
    IF text = <<>> THEN 0
    ELSE 10 * parse_int(SubSeq(text, 1, Len(text) - 1))
             + ((CHOOSE d \in 1..10 : Digits[d] = text[Len(text)]) - 1)

Arg(word) == <<word>>

gdalwarp_project_options ==
    <<Arg("-s_srs"), Arg("cdl crs, datum NAD83"), Arg("-t_srs"), Arg("dst crs")>>

gdalwarp_crop_options ==
    <<Arg("-te"), Arg("dst xmin"), Arg("dst ymin"), Arg("dst xmax"),
      Arg("dst ymax")>>

gdalwarp_resample_options(width, height, technique) ==
    <<Arg("-ts"), width, height, Arg("-r"), Arg(technique)>>

\* 'width, height = dst.shape': the two entries of the shape, in its order
unpack_shape(shape) == [width |-> shape[1], height |-> shape[2]]

\* the options prepare_cdl_image builds with dst open
warp_options(dst_shape) ==
    LET wh == unpack_shape(dst_shape)
    IN  gdalwarp_project_options \o gdalwarp_crop_options
            \o gdalwarp_resample_options(str_int(wh.width),
                                         str_int(wh.height), "near")

_gdalwarp_commands(input_filename, output_filename, options) ==
    <<Arg("gdalwarp")>> \o options
        \o <<Arg("-overwrite"), Arg(input_filename), Arg(output_filename)>>

\* gdalwarp -ts <width> <height>: the output has <width> columns and
\* <height> rows
warped_shape(options) ==
    LET k == CHOOSE n \in 1..Len(options) : options[n] = Arg("-ts")
    IN  <<parse_int(options[k + 2]), parse_int(options[k + 1])>>

\* the file whose presence the 'if' before the warp tests: dst_filename
guard_file == "dst"

\* the branch taken after the options are built
warp_branch(files, overwrite, compress) ==
    IF guard_file \in DOMAIN files /\ ~overwrite THEN "abort"
    ELSE IF compress THEN "compress"
    ELSE "warp"

PrepareCdlImage ==
    /\ c_pc = "call"
    /\ IF "cdl" \notin DOMAIN c_files \/ "dst" \notin DOMAIN c_files
       THEN /\ c_pc' = "raised"
            /\ c_error' = "RasterioIOError"
            /\ UNCHANGED <<c_files, c_commands>>
       ELSE LET options == warp_options(c_files["dst"])
                branch  == warp_branch(c_files, c_overwrite, c_compress)
                vrt     == options \o <<Arg("-of"), Arg("vrt")>>
                written == [f \in DOMAIN c_files \cup {"out"} |->
                               IF f = "out" THEN warped_shape(options)
                               ELSE c_files[f]]
            IN  /\ c_pc' = "returned"
                /\ UNCHANGED c_error
                /\ c_commands' =
                     IF branch = "abort" THEN <<>>
                     ELSE IF branch = "compress"
                     THEN <<_gdalwarp_commands("cdl", "vrt", vrt),
                            <<Arg("gdal_translate"), Arg("-co"),
                              Arg("compress=LZW"), Arg("-co"),
                              Arg("predictor=2"), Arg("vrt"), Arg("out")>>>>
                     ELSE <<_gdalwarp_commands("cdl", "out", options)>>
                /\ c_files' = IF branch = "abort" THEN c_files ELSE written
    /\ UNCHANGED <<c_files0, c_compress, c_overwrite>>

\* the CDL image is there; the destination image, of any shape, and an
\* output of an earlier run may be there
RasterFiles ==
    LET cdl == [f \in {"cdl"} |-> <<MaxDim + 1, MaxDim + 1>>]
        with(fs, f, shape) ==
            [g \in DOMAIN fs \cup {f} |-> IF g = f THEN shape ELSE fs[g]]
        dsts == {cdl} \cup {with(cdl, "dst", <<r, c>>) :
                               r \in 1..MaxDim, c \in 1..MaxDim}
    IN  dsts \cup {with(fs, "out", <<1, 1>>) : fs \in dsts}

CdlInit ==
    /\ c_files \in RasterFiles
    /\ c_files0 = c_files
    /\ c_compress \in BOOLEAN
    /\ c_overwrite \in BOOLEAN
    /\ c_commands = <<>> /\ c_pc = "call" /\ c_error = "none"
    /\ items = <<>> /\ ids_by_date = <<>> /\ order_requests = <<>>
    /\ gpc = "off"
    /\ p_num_loops = 0 /\ p_count = 0 /\ p_pc = "off" /\ p_log = <<>>
    /\ p_error = "none" /\ p_value = "unset"
    /\ m_order_ids = <<>> /\ m_num_loops = 0 /\ m_count = 0
    /\ m_polling = <<>> /\ m_completed = <<>> /\ m_snapshot = <<>>
    /\ m_idx = 0 /\ m_pc = "off" /\ m_log = <<>> /\ m_error = "none"
    /\ m_value = "unset"
    /\ d_results = <<>> /\ d_overwrite = FALSE /\ d_fs = <<>>
    /\ d_fs0 = <<>> /\ d_idx = 0 /\ d_pc = "off" /\ d_http = <<>>
    /\ d_error = "none"
    /\ u_fs = <<>> /\ u_fs0 = <<>> /\ u_calls = <<>>
    /\ do_caller = "none" /\ do_order_ids = <<>> /\ do_num_loops = 0
    /\ do_endswith = <<>> /\ do_dest = {} /\ do_started = {} /\ do_idx = 0
    /\ do_count = 0 /\ do_files = <<>> /\ do_match = <<>> /\ do_pc = "off"
    /\ do_log = <<>> /\ do_error = "none"
    /\ gi_limit = 0 /\ gi_pages = <<>> /\ gi_loop = 0 /\ gi_cur = 0
    /\ gi_ids = <<>> /\ gi_pc = "off" /\ gi_value = <<>>
    /\ gi_error = "none" /\ gi_fetched = <<>>
    /\ a_urls = <<>> /\ a_delay = 0 /\ a_loops = 0 /\ a_disp_id = "none"
    /\ a_loop = 0 /\ a_frame = 0 /\ a_pc = "off" /\ a_log = <<>>
    /\ l_survey = <<>> /\ l_idx = 0 /\ l_features = <<>>
    /\ l_projected = <<>> /\ l_pc = "off" /\ l_value = <<>>
    /\ h_features = <<>> /\ h_map = <<>> /\ h_created = <<>>
    /\ h_deleted = {} /\ h_aois = <<>> /\ h_label = <<>>
    /\ h_error = "none" /\ h_events = 0

CdlNext ==
    \/ PrepareCdlImage /\ UNCHANGED <<groupVars, pollVars, multiVars, dlVars,
            unzipVars, dordVars, itemIdsVars, animVars, truthVars, drawVars>>

SpecCdl == CdlInit /\ [][CdlNext]_vars

CdlWarped == c_pc = "returned" /\ c_commands # <<>>

\* C17: when prepare_cdl_image has warped, the output has the shape of the
\* destination image, and the two numbers after '-ts' are the destination's
\* number of columns, then its number of rows.
C17_OutputHasDstShape ==
    CdlWarped =>
        LET cmd == c_commands[1]
            k   == CHOOSE n \in 1..Len(cmd) : cmd[n] = Arg("-ts")
        IN  /\ c_files["out"] = c_files["dst"]
            /\ cmd[k + 1] = str_int(c_files["dst"][2])
            /\ cmd[k + 2] = str_int(c_files["dst"][1])

\* C18: prepare_cdl_image warps when overwrite is set or the output file
\* was not there at the call, and only then.
C18_SkipIffOutputExists ==
    c_pc = "returned" =>
        (c_commands # <<>> <=> (c_overwrite \/ "out" \notin DOMAIN c_files0))

(***************************************************************************)
(* visualize_imagery_over_time.ipynb: animate(urls, delay, loops).  a_log  *)
(* lists the calls of display and time.sleep.  a_loop counts the passes of *)
(* the outer for made so far, a_frame is the position in urls.  delay is   *)
(* counted in tenths of a second.                                          *)
(***************************************************************************)
TileUrls == {"tile url 1", "tile url 2"}
Delays == {5, 10}
DisplayIds == {"0.12", "0.87"}

\* f'<img src="{frame_url}" class="mySlides">'
htmlDisplay(frame_url) == <<"<img src=", frame_url, " class=mySlides>">>

DisplayEvent(content, disp_id, update) ==
    [kind |-> "display", content |-> content, disp_id |-> disp_id,
     update |-> update, secs |-> 0]
SleepEvent(secs) ==
    [kind |-> "sleep", content |-> <<>>, disp_id |-> "none",
     update |-> FALSE, secs |-> secs]

\* len(range(loops)) for loops >= 0
\* faulty variant: one pass more
range_len_one_more(loops) == loops + 1

range_len(loops) == loops

\* disp_id = str(random.random()); display("placeholder", display_id=disp_id)
AnimatePlaceholder ==
    /\ a_pc = "call"
    /\ \E id \in DisplayIds :
          /\ a_disp_id' = id
          /\ a_log' = Append(a_log, DisplayEvent(<<"placeholder">>, id, FALSE))
    /\ a_loop' = 0
    /\ a_frame' = 1
    /\ a_pc' = "for"
    /\ UNCHANGED <<a_urls, a_delay, a_loops>>

\* display(HTML(htmlDisplay), display_id=disp_id, update=True)
AnimateFrame ==
    /\ a_pc = "for"
    /\ a_loop < range_len(a_loops)
    /\ a_frame <= Len(a_urls)
    /\ a_log' = Append(a_log,
                    DisplayEvent(htmlDisplay(a_urls[a_frame]), a_disp_id, TRUE))
    /\ a_pc' = "sleep"
    /\ UNCHANGED <<a_urls, a_delay, a_loops, a_disp_id, a_loop, a_frame>>

\* time.sleep(delay)
AnimateSleep ==
    /\ a_pc = "sleep"
    /\ a_log' = Append(a_log, SleepEvent(a_delay))
    /\ a_frame' = a_frame + 1
    /\ a_pc' = "for"
    /\ UNCHANGED <<a_urls, a_delay, a_loops, a_disp_id, a_loop>>

\* the inner for is through: next pass of the outer for
AnimateNextLoop ==
    /\ a_pc = "for"
    /\ a_loop < range_len(a_loops)
    /\ a_frame > Len(a_urls)
    /\ a_loop' = a_loop + 1
    /\ a_frame' = 1
    /\ UNCHANGED <<a_urls, a_delay, a_loops, a_disp_id, a_pc, a_log>>

\* the outer for is through
AnimateReturn ==
    /\ a_pc = "for"
    /\ a_loop >= range_len(a_loops)
    /\ a_pc' = "returned"
    /\ UNCHANGED <<a_urls, a_delay, a_loops, a_disp_id, a_loop, a_frame, a_log>>

AnimateInit ==
    /\ a_urls \in SeqsUpTo(TileUrls, MaxUrls)
    /\ a_delay \in Delays
    /\ a_loops \in 0..MaxAnimLoops
    /\ a_disp_id = "none" /\ a_loop = 0 /\ a_frame = 0
    /\ a_pc = "call" /\ a_log = <<>>
    /\ items = <<>> /\ ids_by_date = <<>> /\ order_requests = <<>>
    /\ gpc = "off"
    /\ p_num_loops = 0 /\ p_count = 0 /\ p_pc = "off" /\ p_log = <<>>
    /\ p_error = "none" /\ p_value = "unset"
    /\ m_order_ids = <<>> /\ m_num_loops = 0 /\ m_count = 0
    /\ m_polling = <<>> /\ m_completed = <<>> /\ m_snapshot = <<>>
    /\ m_idx = 0 /\ m_pc = "off" /\ m_log = <<>> /\ m_error = "none"
    /\ m_value = "unset"
    /\ d_results = <<>> /\ d_overwrite = FALSE /\ d_fs = <<>>
    /\ d_fs0 = <<>> /\ d_idx = 0 /\ d_pc = "off" /\ d_http = <<>>
    /\ d_error = "none"
    /\ u_fs = <<>> /\ u_fs0 = <<>> /\ u_calls = <<>>
    /\ do_caller = "none" /\ do_order_ids = <<>> /\ do_num_loops = 0
    /\ do_endswith = <<>> /\ do_dest = {} /\ do_started = {} /\ do_idx = 0
    /\ do_count = 0 /\ do_files = <<>> /\ do_match = <<>> /\ do_pc = "off"
    /\ do_log = <<>> /\ do_error = "none"
    /\ gi_limit = 0 /\ gi_pages = <<>> /\ gi_loop = 0 /\ gi_cur = 0
    /\ gi_ids = <<>> /\ gi_pc = "off" /\ gi_value = <<>>
    /\ gi_error = "none" /\ gi_fetched = <<>>
    /\ c_files = <<>> /\ c_files0 = <<>> /\ c_compress = FALSE
    /\ c_overwrite = FALSE /\ c_commands = <<>> /\ c_pc = "off"
    /\ c_error = "none"
    /\ l_survey = <<>> /\ l_idx = 0 /\ l_features = <<>>
    /\ l_projected = <<>> /\ l_pc = "off" /\ l_value = <<>>
    /\ h_features = <<>> /\ h_map = <<>> /\ h_created = <<>>
    /\ h_deleted = {} /\ h_aois = <<>> /\ h_label = <<>>
    /\ h_error = "none" /\ h_events = 0

AnimateNext ==
    \/ AnimatePlaceholder /\ UNCHANGED <<groupVars, pollVars, multiVars,
            dlVars, unzipVars, dordVars, itemIdsVars, cdlVars, truthVars,
            drawVars>>
    \/ AnimateFrame /\ UNCHANGED <<groupVars, pollVars, multiVars, dlVars,
            unzipVars, dordVars, itemIdsVars, cdlVars, truthVars, drawVars>>
    \/ AnimateSleep /\ UNCHANGED <<groupVars, pollVars, multiVars, dlVars,
            unzipVars, dordVars, itemIdsVars, cdlVars, truthVars, drawVars>>
    \/ AnimateNextLoop /\ UNCHANGED <<groupVars, pollVars, multiVars, dlVars,
            unzipVars, dordVars, itemIdsVars, cdlVars, truthVars, drawVars>>
    \/ AnimateReturn /\ UNCHANGED <<groupVars, pollVars, multiVars, dlVars,
            unzipVars, dordVars, itemIdsVars, cdlVars, truthVars, drawVars>>

SpecAnimate == AnimateInit /\ [][AnimateNext]_vars

\* the function keeps running until it returns
SpecAnimateLive == SpecAnimate /\ WF_vars(AnimateNext)

\* what the claim about animate speaks of
RECURSIVE FramesOf(_, _, _)
FramesOf(urls, delay, id) ==
    IF urls = <<>> THEN <<>>
    ELSE <<DisplayEvent(<<"<img src=", Head(urls), " class=mySlides>">>, id, TRUE),
           SleepEvent(delay)>> \o FramesOf(Tail(urls), delay, id)
RECURSIVE Repeated(_, _)
Repeated(n, events) ==
    IF n = 0 THEN <<>> ELSE events \o Repeated(n - 1, events)
Displayed == {k \in 1..Len(a_log) : a_log[k].kind = "display" /\ a_log[k].update}

\* C19: animate ends, and when it has ended it has shown the placeholder
\* and then, loops times over, every url in the given order, each display
\* followed by one sleep of delay: loops * len(urls) frames in all, none
\* when loops is 0 or urls is empty.
C19_AnimateFrames ==
    /\ [](a_pc = "returned" =>
            /\ a_log = <<DisplayEvent(<<"placeholder">>, a_disp_id, FALSE)>>
                          \o Repeated(a_loops,
                                      FramesOf(a_urls, a_delay, a_disp_id))
            /\ Cardinality(Displayed) = a_loops * Len(a_urls))
    /\ <>(a_pc = "returned")

\* two urls were shown twice over
C19_Witness ==
    /\ a_pc = "returned"
    /\ a_loops = 2
    /\ Len(a_urls) = 2 /\ a_urls[1] # a_urls[2]
    /\ Len(a_log) = 9
    /\ a_log[8].content[2] = a_urls[2]

(***************************************************************************)
(* datasets-identify.ipynb: load_ground_truth.  l_survey is the survey     *)
(* file as fiona yields it, a feature being its id, its CLASS1 property    *)
(* and its geometry; a geometry names its coordinate system and counts how *)
(* often it was transformed.  l_projected lists the ids of the features    *)
(* handed to project_feature.                                              *)
(***************************************************************************)
agg_classes == <<"G", "R", "F", "P", "T", "D", "C", "V">>

\* feat['properties']['CLASS1'] in agg_classes
\* faulty variant: every feature counts as agricultural
is_agricultural_any(feat) == TRUE

is_agricultural(feat) == \E k \in 1..Len(agg_classes) : agg_classes[k] = feat.CLASS1

\* transform(projection_fcn, g1): the geometry in epsg:4326
transform_geometry(g) ==
    [shape |-> g.shape, crs |-> "epsg:4326", transformed |-> g.transformed + 1]

\* project_feature: feat['geometry'] is replaced by the transformed geometry
project_feature(feat) ==
    [feat EXCEPT !.geometry = transform_geometry(feat.geometry)]

\* one pass of 'for feat in survey_data'
LoadFeature ==
    /\ l_pc = "for"
    /\ l_idx <= Len(l_survey)
    /\ LET feat == l_survey[l_idx]
       IN  IF is_agricultural(feat)
           THEN /\ l_projected' = Append(l_projected, feat.id)
                /\ l_features' = Append(l_features, project_feature(feat))
           ELSE UNCHANGED <<l_projected, l_features>>
    /\ l_idx' = l_idx + 1
    /\ UNCHANGED <<l_survey, l_pc, l_value>>

\* return features
LoadReturn ==
    /\ l_pc = "for"
    /\ l_idx > Len(l_survey)
    /\ l_value' = l_features
    /\ l_pc' = "returned"
    /\ UNCHANGED <<l_survey, l_idx, l_features, l_projected>>

\* CLASS1 values of the survey: the agricultural classes and others
SurveyClasses == Range(agg_classes) \cup {"NV", "U", "g"}
SurveyFiles ==
    {[k \in 1..Len(cs) |->
         [id |-> k, CLASS1 |-> cs[k],
          geometry |-> [shape |-> k, crs |-> "survey crs", transformed |-> 0]]]
     : cs \in SeqsUpTo(SurveyClasses, MaxFeatures)}

TruthInit ==
    /\ l_survey \in SurveyFiles
    /\ l_idx = 1 /\ l_features = <<>> /\ l_projected = <<>>
    /\ l_pc = "for" /\ l_value = <<>>
    /\ items = <<>> /\ ids_by_date = <<>> /\ order_requests = <<>>
    /\ gpc = "off"
    /\ p_num_loops = 0 /\ p_count = 0 /\ p_pc = "off" /\ p_log = <<>>
    /\ p_error = "none" /\ p_value = "unset"
    /\ m_order_ids = <<>> /\ m_num_loops = 0 /\ m_count = 0
    /\ m_polling = <<>> /\ m_completed = <<>> /\ m_snapshot = <<>>
    /\ m_idx = 0 /\ m_pc = "off" /\ m_log = <<>> /\ m_error = "none"
    /\ m_value = "unset"
    /\ d_results = <<>> /\ d_overwrite = FALSE /\ d_fs = <<>>
    /\ d_fs0 = <<>> /\ d_idx = 0 /\ d_pc = "off" /\ d_http = <<>>
    /\ d_error = "none"
    /\ u_fs = <<>> /\ u_fs0 = <<>> /\ u_calls = <<>>
    /\ do_caller = "none" /\ do_order_ids = <<>> /\ do_num_loops = 0
    /\ do_endswith = <<>> /\ do_dest = {} /\ do_started = {} /\ do_idx = 0
    /\ do_count = 0 /\ do_files = <<>> /\ do_match = <<>> /\ do_pc = "off"
    /\ do_log = <<>> /\ do_error = "none"
    /\ gi_limit = 0 /\ gi_pages = <<>> /\ gi_loop = 0 /\ gi_cur = 0
    /\ gi_ids = <<>> /\ gi_pc = "off" /\ gi_value = <<>>
    /\ gi_error = "none" /\ gi_fetched = <<>>
    /\ c_files = <<>> /\ c_files0 = <<>> /\ c_compress = FALSE
    /\ c_overwrite = FALSE /\ c_commands = <<>> /\ c_pc = "off"
    /\ c_error = "none"
    /\ a_urls = <<>> /\ a_delay = 0 /\ a_loops = 0 /\ a_disp_id = "none"
    /\ a_loop = 0 /\ a_frame = 0 /\ a_pc = "off" /\ a_log = <<>>
    /\ h_features = <<>> /\ h_map = <<>> /\ h_created = <<>>
    /\ h_deleted = {} /\ h_aois = <<>> /\ h_label = <<>>
    /\ h_error = "none" /\ h_events = 0

TruthNext ==
    \/ LoadFeature /\ UNCHANGED <<groupVars, pollVars, multiVars, dlVars,
            unzipVars, dordVars, itemIdsVars, cdlVars, animVars, drawVars>>
    \/ LoadReturn /\ UNCHANGED <<groupVars, pollVars, multiVars, dlVars,
            unzipVars, dordVars, itemIdsVars, cdlVars, animVars, drawVars>>

SpecTruth == TruthInit /\ [][TruthNext]_vars

\* what the claim about load_ground_truth speaks of
Agricultural ==
    {k \in 1..Len(l_survey) :
        l_survey[k].CLASS1 \in {"G", "R", "F", "P", "T", "D", "C", "V"}}

\* C20: load_ground_truth returns the features of the survey whose CLASS1
\* is one of G, R, F, P, T, D, C, V, all of them, in file order, each with
\* its geometry transformed once; project_feature is called once for each
\* of them and for no other feature.
C20_AgriculturalOnly ==
    l_pc = "returned" =>
        /\ Len(l_value) = Cardinality(Agricultural)
        /\ \A n \in 1..Len(l_value) :
              /\ l_value[n].id \in Agricultural
              /\ l_value[n].CLASS1 = l_survey[l_value[n].id].CLASS1
              /\ l_value[n].geometry.shape = l_survey[l_value[n].id].geometry.shape
              /\ l_value[n].geometry.crs = "epsg:4326"
              /\ l_value[n].geometry.transformed = 1
              /\ n > 1 => l_value[n - 1].id < l_value[n].id
        /\ Len(l_projected) = Cardinality(Agricultural)
        /\ \A k \in Agricultural :
              Cardinality({n \in 1..Len(l_projected) : l_projected[n] = k}) = 1

\* a survey with a feature of another class between two agricultural ones
C20_Witness ==
    /\ l_pc = "returned"
    /\ Len(l_survey) = 3
    /\ l_survey[1].CLASS1 = "V" /\ l_survey[2].CLASS1 = "NV"
    /\ l_survey[3].CLASS1 = "G"
    /\ Len(l_value) = 2
    /\ l_value[2].id = 3

(***************************************************************************)
(* datasets-identify.ipynb: handle_draw, the callback of the draw control. *)
(* The map is a row of cells; a geometry is the stretch <<lo, hi>> of      *)
(* cells it covers.  The draw control keeps the boxes drawn (h_map, each   *)
(* with an id and its present geometry) and tells handle_draw of every     *)
(* box created, edited or deleted, passing the box's geo_json.  h_created  *)
(* and h_deleted record what the control did; handle_draw sees none of it. *)
(* An exception raised by the callback ends that call only.                *)
(***************************************************************************)
MapCells == 1..2
BoxGeometries == {<<lo, hi>> : lo \in MapCells, hi \in MapCells} \ {<<2, 1>>}

geo_json_of(geometry) == [type |-> "Feature", geometry |-> geometry]

\* shape(g): the cells of a geometry
shape(g) == g[1]..g[2]

\* a.within(b)
within(a, b) == a \subseteq b

\* the loaded features: CLASS1 and geometry
FeatureLists ==
    { << [CLASS1 |-> "G", geometry |-> <<1, 1>>],
         [CLASS1 |-> "V", geometry |-> <<2, 2>>],
         [CLASS1 |-> "G", geometry |-> <<1, 2>>] >>,
      << [CLASS1 |-> "R", geometry |-> <<1, 1>>],
         [CLASS1 |-> "R", geometry |-> <<1, 1>>] >>,
      << >> }

\* len(set([f['properties']['CLASS1'] for f in features]))
total_unique_classes(features) ==
    Cardinality({features[k].CLASS1 : k \in 1..Len(features)})

\* set([f['properties']['CLASS1'] for f in contained_features])
unique_classes(features, geo_json) ==
    {features[k].CLASS1 :
        k \in {n \in 1..Len(features) :
                  within(shape(features[n].geometry), shape(geo_json.geometry))}}

\* '{} unique classes out of {} total'.format(n, total)
label_value(n, total) ==
    <<str_int(n), <<" unique classes out of ">>, str_int(total), <<" total">>>>

\* handle_draw(self, action, geo_json): aois and label after the call, and
\* the exception it raised, if any
handle_draw(features, aois, label, action, geo_json) ==
    IF action = "created"
    THEN [aois |-> Append(aois, geo_json),
          label |-> label_value(Cardinality(unique_classes(features, geo_json)),
                                total_unique_classes(features)),
          error |-> "none"]
    ELSE IF action = "deleted"
    THEN IF \E k \in 1..Len(aois) : aois[k] = geo_json
         THEN [aois |-> list_remove(aois, geo_json), label |-> label,
               error |-> "none"]
         ELSE [aois |-> aois, label |-> label, error |-> "ValueError"]
    ELSE [aois |-> aois, label |-> label, error |-> "none"]

Handled(action, geo_json) ==
    LET r == handle_draw(h_features, h_aois, h_label, action, geo_json)
    IN  /\ h_aois' = r.aois
        /\ h_label' = r.label
        /\ h_error' = r.error
        /\ h_events' = h_events + 1
        /\ UNCHANGED h_features

\* a box is drawn
DrawCreated ==
    /\ h_events < MaxDrawEvents
    /\ \E g \in BoxGeometries :
          LET box == [id |-> Len(h_created) + 1, geo_json |-> geo_json_of(g)]
          IN  /\ h_map' = Append(h_map, box)
              /\ h_created' = Append(h_created, box)
              /\ Handled("created", box.geo_json)
    /\ UNCHANGED h_deleted

\* a box on the map is given another geometry
DrawEdited ==
    /\ h_events < MaxDrawEvents
    /\ \E k \in 1..Len(h_map), g \in BoxGeometries :
          /\ geo_json_of(g) # h_map[k].geo_json
          /\ h_map' = [h_map EXCEPT ![k].geo_json = geo_json_of(g)]
          /\ Handled("edited", geo_json_of(g))
    /\ UNCHANGED <<h_created, h_deleted>>

\* a box on the map is deleted
DrawDeleted ==
    /\ h_events < MaxDrawEvents
    /\ \E k \in 1..Len(h_map) :
          /\ h_map' = SubSeq(h_map, 1, k - 1) \o SubSeq(h_map, k + 1, Len(h_map))
          /\ h_deleted' = h_deleted \cup {h_map[k].id}
          /\ Handled("deleted", h_map[k].geo_json)
    /\ UNCHANGED h_created

DrawInit ==
    /\ h_features \in FeatureLists
    /\ h_map = <<>> /\ h_created = <<>> /\ h_deleted = {}
    /\ h_aois = <<>> /\ h_label = <<>> /\ h_error = "none" /\ h_events = 0
    /\ items = <<>> /\ ids_by_date = <<>> /\ order_requests = <<>>
    /\ gpc = "off"
    /\ p_num_loops = 0 /\ p_count = 0 /\ p_pc = "off" /\ p_log = <<>>
    /\ p_error = "none" /\ p_value = "unset"
    /\ m_order_ids = <<>> /\ m_num_loops = 0 /\ m_count = 0
    /\ m_polling = <<>> /\ m_completed = <<>> /\ m_snapshot = <<>>
    /\ m_idx = 0 /\ m_pc = "off" /\ m_log = <<>> /\ m_error = "none"
    /\ m_value = "unset"
    /\ d_results = <<>> /\ d_overwrite = FALSE /\ d_fs = <<>>
    /\ d_fs0 = <<>> /\ d_idx = 0 /\ d_pc = "off" /\ d_http = <<>>
    /\ d_error = "none"
    /\ u_fs = <<>> /\ u_fs0 = <<>> /\ u_calls = <<>>
    /\ do_caller = "none" /\ do_order_ids = <<>> /\ do_num_loops = 0
    /\ do_endswith = <<>> /\ do_dest = {} /\ do_started = {} /\ do_idx = 0
    /\ do_count = 0 /\ do_files = <<>> /\ do_match = <<>> /\ do_pc = "off"
    /\ do_log = <<>> /\ do_error = "none"
    /\ gi_limit = 0 /\ gi_pages = <<>> /\ gi_loop = 0 /\ gi_cur = 0
    /\ gi_ids = <<>> /\ gi_pc = "off" /\ gi_value = <<>>
    /\ gi_error = "none" /\ gi_fetched = <<>>
    /\ c_files = <<>> /\ c_files0 = <<>> /\ c_compress = FALSE
    /\ c_overwrite = FALSE /\ c_commands = <<>> /\ c_pc = "off"
    /\ c_error = "none"
    /\ a_urls = <<>> /\ a_delay = 0 /\ a_loops = 0 /\ a_disp_id = "none"
    /\ a_loop = 0 /\ a_frame = 0 /\ a_pc = "off" /\ a_log = <<>>
    /\ l_survey = <<>> /\ l_idx = 0 /\ l_features = <<>>
    /\ l_projected = <<>> /\ l_pc = "off" /\ l_value = <<>>

DrawNext ==
    \/ DrawCreated /\ UNCHANGED <<groupVars, pollVars, multiVars, dlVars,
            unzipVars, dordVars, itemIdsVars, cdlVars, animVars, truthVars>>
    \/ DrawEdited /\ UNCHANGED <<groupVars, pollVars, multiVars, dlVars,
            unzipVars, dordVars, itemIdsVars, cdlVars, animVars, truthVars>>
    \/ DrawDeleted /\ UNCHANGED <<groupVars, pollVars, multiVars, dlVars,
            unzipVars, dordVars, itemIdsVars, cdlVars, animVars, truthVars>>

SpecDraw == DrawInit /\ [][DrawNext]_vars

\* the geometries the boxes were created with, of the boxes not deleted
RECURSIVE CreatedNotDeleted(_)
CreatedNotDeleted(created) ==
    IF created = <<>> THEN <<>>
    ELSE CreatedNotDeleted(SubSeq(created, 1, Len(created) - 1))
             \o (IF created[Len(created)].id \in h_deleted THEN <<>>
                 ELSE <<created[Len(created)].geo_json>>)

\* C21: after any draw events aois holds the geometries of the boxes
\* created and not deleted since, in the order of their creation; once a
\* box was created the label tells a number of classes that is at most
\* total_unique_classes.
C21_AoisAreBoxesNotDeleted ==
    /\ h_aois = CreatedNotDeleted(h_created)
    /\ h_created # <<>> =>
          /\ h_label # <<>>
          /\ parse_int(h_label[1]) <= parse_int(h_label[3])
          /\ parse_int(h_label[3]) = total_unique_classes(h_features)

(***************************************************************************)
(* The two polls run to their end: the function's own steps keep being     *)
(* taken while one is possible.                                            *)
(***************************************************************************)
SpecPollsLive == SpecPolls /\ WF_vars(PollsNext)

GetsOf(log, oid) == {k \in Gets(log) : log[k].oid = oid}

\* C22: each poll_for_success ends, whatever the service answers; the
\* single-order poll fetches at most num_loops times, the several-orders
\* poll makes at most num_loops rounds and fetches each order at most
\* num_loops times; with num_loops = 0 each returns without a fetch.
C22_PollsTerminateWithinBudget ==
    /\ <>(PollEnded \/ MultiEnded)
    /\ [](/\ Cardinality(Gets(p_log)) <= p_num_loops
          /\ m_count <= m_num_loops
          /\ \A n \in 1..Len(m_order_ids) :
                Cardinality(GetsOf(m_log, m_order_ids[n])) <= m_num_loops
          /\ (PollEnded /\ p_num_loops = 0) =>
                (p_pc = "returned" /\ p_log = <<>>)
          /\ (MultiEnded /\ m_num_loops = 0) =>
                (m_pc = "returned" /\ m_log = <<>>))

\* two orders were fetched in every round of the budget and answered with
\* a state neither poll names
C22_Witness ==
    /\ m_pc = "returned"
    /\ m_num_loops = 2 /\ m_count = 2
    /\ Len(m_order_ids) = 2
    /\ Cardinality(Gets(m_log)) = 4
    /\ \A k \in Gets(m_log) : AnsweredState(m_log[k], {"cancelled"})

\* a fetch after which the single-order poll goes on
WaitingGet(e) == AnsweredState(e, ServerStates \ {"success", "failed", "partial"})

\* the rounds of the several-orders poll that ended with orders left to
\* poll and no exception
MultiWaitingRounds ==
    IF m_pc = "while" THEN m_count
    ELSE IF m_pc = "returned" /\ m_polling # <<>> THEN m_count
    ELSE IF m_count = 0 THEN 0
    ELSE m_count - 1

\* C26: in both polls the first call is a fetch, never a sleep; a sleep
\* (10 s in the single-order poll, 30 s in the several-orders poll) comes
\* once after every round that leaves the poll waiting and nowhere else,
\* also after the last round of the budget, so the sleeps are as many as
\* those rounds and an exhausted poll ends on a sleep.
C26_OneSleepPerWaitingRound ==
    /\ p_log # <<>> => IsGet(p_log[1])
    /\ \A k \in 1..Len(p_log) :
          /\ IsSleep(p_log[k]) =>
                (p_log[k].secs = 10 /\ k > 1 /\ WaitingGet(p_log[k - 1]))
          /\ WaitingGet(p_log[k]) =>
                IF k < Len(p_log) THEN IsSleep(p_log[k + 1])
                ELSE p_pc = "sleep"
    /\ PollEnded =>
          Cardinality(Sleeps(p_log)) =
              Cardinality({k \in 1..Len(p_log) : WaitingGet(p_log[k])})
    /\ m_log # <<>> => IsGet(m_log[1])
    /\ \A k \in 1..Len(m_log) :
          IsSleep(m_log[k]) =>
              (m_log[k].secs = 30 /\ k > 1 /\ IsGet(m_log[k - 1]))
    /\ m_pc # "off" => Cardinality(Sleeps(m_log)) = MultiWaitingRounds
    /\ (m_pc = "returned" /\ m_polling # <<>> /\ m_count > 0) =>
          IsSleep(m_log[Len(m_log)])

\* the single-order poll used up a budget of two rounds: fetch, sleep,
\* fetch, sleep, and then returned
C26_Witness ==
    /\ p_pc = "returned"
    /\ p_num_loops = 2
    /\ Len(p_log) = 4
    /\ WaitingGet(p_log[1]) /\ IsSleep(p_log[2])
    /\ WaitingGet(p_log[3]) /\ IsSleep(p_log[4])

\* what the claims about poll_for_download speak of
Checks == {k \in 1..Len(do_log) : do_log[k].kind = "check"}
IsArchivePath(path, suffix) ==
    /\ Len(path) = 2
    /\ path[1] = "data/use_case_1"
    /\ [name |-> path[2], kind |-> "file"] \in do_dest
    /\ Len(path[2]) >= Len(suffix)
    /\ \A n \in 1..Len(suffix) :
          path[2][Len(path[2]) - Len(suffix) + n] = suffix[n]

\* C24: poll_for_download, called on its own, looks into dest at most
\* num_loops times; the check that finds a file ending with the suffix is
\* its last call (no sleep follows) and the function returns dest joined
\* with the name of such a file, a regular file; when num_loops >= 1 and
\* no check found one, it returns None after num_loops checks, each
\* followed by a sleep.
C24_PollForDownload ==
    do_caller = "notebook" =>
        /\ Cardinality(Checks) <= do_num_loops
        /\ \A k \in Checks :
              IF do_log[k].found
              THEN /\ k = Len(do_log)
                   /\ do_pc = "returned"
                   /\ IsArchivePath(do_match, do_endswith)
              ELSE \/ k < Len(do_log) /\ do_log[k + 1].kind = "sleep"
                   \/ k = Len(do_log) /\ do_pc = "sleep"
        /\ (do_pc = "returned" /\ do_num_loops >= 1
                /\ \A k \in Checks : ~do_log[k].found) =>
              /\ do_match = <<>>
              /\ Cardinality(Checks) = do_num_loops
              /\ do_error = "none"

\* the archive arrived between the first and the second check; dest also
\* holds a directory whose name ends with the suffix
C24_Witness ==
    /\ do_caller = "notebook"
    /\ do_pc = "returned"
    /\ do_endswith = zip_suffix(OrderIdPool[1])
    /\ \E e \in do_dest : e.kind = "dir"
    /\ Len(do_log) = 3
    /\ ~do_log[1].found /\ do_log[2].kind = "sleep" /\ do_log[3].found
    /\ do_match = <<dest_dir, archive_name(OrderIdPool[1])>>

\* the orders whose archive a check found, in the order of order_ids
RECURSIVE FoundPaths(_)
FoundPaths(n) ==
    IF n = 0 THEN <<>>
    ELSE FoundPaths(n - 1)
           \o (IF \E k \in 1..Len(do_log) :
                      /\ do_log[k].kind = "check" /\ do_log[k].found
                      /\ do_log[k].order = do_order_ids[n]
               THEN << <<"data/use_case_1",
                         <<"n", "_">> \o do_order_ids[n] \o <<".", "z", "i", "p">>>> >>
               ELSE <<>>)

\* C25: download_orders returns, without an exception, the paths of the
\* archives found, in the order of order_ids; an order whose archive was
\* not found within the checks made for it has no entry, so the list can
\* be shorter than order_ids.
C25_FoundArchivesOnly ==
    (do_caller = "download_orders" /\ do_pc = "returned") =>
        /\ do_error = "none"
        /\ do_files = FoundPaths(Len(do_order_ids))
        /\ Len(do_files) <= Len(do_order_ids)
        /\ \A n \in 1..Len(do_files) : do_files[n] # <<>>

\* the archive of the first of two orders did not come in time, that of
\* the second did: the one entry returned belongs to the second order
C25_Witness ==
    /\ do_caller = "download_orders"
    /\ do_pc = "returned"
    /\ Len(do_order_ids) = 2
    /\ Len(do_files) = 1
    /\ do_files[1] = <<dest_dir, archive_name(do_order_ids[2])>>
    /\ [name |-> archive_name(do_order_ids[1]), kind |-> "file"] \notin do_dest

(***************************************************************************)
(* get_item_ids running to its end.                                        *)
(***************************************************************************)
SpecItemIdsLive == SpecItemIds /\ WF_vars(ItemIdsNext)

ItemIdsEnded == gi_pc \in {"returned", "raised"}
ChainIsFinite == gi_loop = 0
ChainKeepsDelivering ==
    gi_loop # 0 /\ \E k \in gi_loop..Len(gi_pages) : gi_pages[k] # <<>>

\* C23: get_item_ids requests a further page only when it holds fewer than
\* limit ids and the page it holds has a 'next' link, so none once limit
\* ids are collected; and it ends when the chain of links is finite or the
\* pages of the chain keep delivering ids.
C23_FollowsWhileShort ==
    /\ [][ (gi_pc = "while" /\ gi_fetched' # gi_fetched) =>
              /\ Len(gi_ids) < gi_limit
              /\ (gi_cur < Len(gi_pages) \/ gi_loop # 0)
              /\ gi_fetched' =
                    Append(gi_fetched,
                           IF gi_cur < Len(gi_pages) THEN gi_cur + 1
                           ELSE gi_loop) ]_vars
    /\ [](gi_pc = "returned" =>
             (Len(gi_ids) >= gi_limit
                 \/ (gi_cur = Len(gi_pages) /\ gi_loop = 0)))
    /\ (ChainIsFinite \/ ChainKeepsDelivering) => <>ItemIdsEnded

\* a chain of one page with one feature whose link leads back to it: the
\* page was requested three times and the function returned three ids
C23_Witness ==
    /\ gi_pc = "returned"
    /\ gi_limit = 3
    /\ Len(gi_pages) = 1 /\ Len(gi_pages[1]) = 1
    /\ gi_loop = 1
    /\ gi_fetched = <<1, 1, 1>>
    /\ Len(gi_value) = 3

====
